---- MODULE Spec2Model ----
(***************************************************************************)
(* Model of the OpenRank compute / challenge pipeline:                     *)
(*   - the fixed (dense) Merkle tree of common/src/merkle,                 *)
(*   - the challenger service loop of app/src/challenger.rs,               *)
(*   - the computer service loop of app/src/computer.rs,                   *)
(*   - the proof server of app/src/server.rs,                              *)
(*   - the OutboundLocalTrust row and the runner state of                  *)
(*     common/src/runners, and the EigenTrust algorithm of                 *)
(*     common/src/algos/et.rs with the compute / verify pipeline on it.    *)
(* Each part has its own specification (SpecMerkle, SpecChallenger,        *)
(* SpecComputer, SpecServer, SpecRow, SpecRunner, SpecEt) over its own     *)
(* variables; the variables of the other parts stay at their initial       *)
(* value.                                                                  *)
(***************************************************************************)
EXTENDS Integers, Sequences, FiniteSets, TLC

VARIABLES
    \* ---- fixed Merkle tree (common/src/merkle/fixed.rs)
    mk_tree,        \* the DenseMerkleTree built by new(leaves)
    mk_leaves,      \* the leaves new() was called with (before padding)
    mk_path,        \* result of the last generate_path call
    mk_verify,      \* arguments and result of the last verify_path call
    \* ---- the chain the services tail
    chain,          \* sequence of blocks; block b holds the one log chain[b]
    \* ---- challenger (app/src/challenger.rs)
    ch_pc,          \* position of challenger::run
    ch_requests,    \* meta_compute_request_map: compute id -> job description id
    ch_challenged,  \* keys of meta_challanged_jobs_map
    ch_latest,      \* latest_processed_block
    ch_window,      \* [from, to] of the last log query, and of the one before
    ch_queue,       \* result_logs still to be handled in this pass
    ch_calls,       \* submitMetaChallenge calls made so far: <<compute id, sub job>>
    ch_last,        \* record of the last handle_meta_compute_result invocation, and the
                    \* ids skipped for want of a request and not handled since
    ch_ticks,       \* number of passes of the loop so far
    \* ---- computer (app/src/computer.rs)
    cp_pc,          \* position of computer::run
    cp_finished,    \* finished_jobs
    cp_latest,      \* latest_processed_block
    cp_window,      \* [from, to] of the last log query, and of the one before
    cp_queue,       \* request_logs still to be handled in this pass
    cp_calls,       \* submitMetaComputeResult calls made so far (compute ids)
    cp_last,        \* record of the last handle_meta_compute_request invocation
    cp_owed,        \* ids whose handling failed before this pass and not handled in it yet
    cp_failed,      \* ids whose most recent handling failed
    cp_ticks,       \* number of passes of the loop so far
    \* ---- proof server (app/src/server.rs)
    sv_meta,        \* the file ./meta/<compute_id>
    sv_scores,      \* the files ./scores/<scores_id>.csv, by scores_id
    sv_resp,        \* the response of the last /score-proof request
    sv_check,       \* the verifier's two verify_path results on that response
    \* ---- one OutboundLocalTrust row (common/src/runners/mod.rs)
    olt,            \* the row: outbound_trust_scores and outbound_sum
    olt_ops,        \* number of operations applied to the row so far
    \* ---- runner state (BaseRunner of common/src/runners/mod.rs, ComputeRunner
    \*      of common/src/runner.rs)
    rn_count,       \* count: the next dense index
    rn_indices,     \* indices: id -> dense index
    rn_rev_indices, \* rev_indices: dense index -> id
    rn_local_trust, \* local_trust: from-index -> OutboundLocalTrust
    rn_seed_trust,  \* seed_trust: index -> f32
    rn_hist,        \* history: the entries ingested so far, in call order
    rn_pre,         \* (lt, seed) after pre_process was applied `times` times
    \* ---- compute / verify pipeline of one sub-job
    et_pc,          \* position in the pipeline
    et_job,         \* the trust and seed entries of the sub-job
    et_runs,        \* results of the compute runs on the job so far
    et_cur,         \* the compute run in progress: its pool, matrix, seed, scores
    et_verdict,     \* registered scores, commitment and result of verify_job
    \* ---- one invocation of a handler, step by step
    \*      (handle_meta_compute_request, handle_meta_compute_result)
    jb_ev,          \* the service and the event it handles
    jb_pc,          \* position of the handler
    jb_disk,        \* the cache files ./trust/, ./seed/, ./scores/ by path
    jb_gets,        \* get_object calls issued so far, by object key
    jb_tasks,       \* the spawned STAGE 1 download tasks, by sub-job
    jb_stage2,      \* STAGE 2: next sub-job, sub-jobs done, global_result, sub_job_failed
    jb_uploads,     \* the spawned STAGE 3 upload tasks, by sub-job
    jb_out,         \* what the handler did after STAGE 2 / STAGE 3
    \* ---- normalise_scores of the two algorithms, applied to a score vector
    nm_in,          \* the score vector: index -> f32
    nm_out,         \* the algorithm, the pool and the vector returned
    \* ---- the maps of a BaseRunner by domain
    dm_runner,      \* the keys of the maps after BaseRunner::new(domains)
    dm_last         \* the last call on the runner: operation, domain, result

mk_vars == <<mk_tree, mk_leaves, mk_path, mk_verify>>
ch_vars == <<ch_pc, ch_requests, ch_challenged, ch_latest, ch_window, ch_queue,
             ch_calls, ch_last, ch_ticks>>
cp_vars == <<cp_pc, cp_finished, cp_latest, cp_window, cp_queue, cp_calls,
             cp_last, cp_owed, cp_failed, cp_ticks>>
sv_vars == <<sv_meta, sv_scores, sv_resp, sv_check>>
\* the variables of the parts modelled after the three above
olt_vars == <<olt, olt_ops>>
rn_vars == <<rn_count, rn_indices, rn_rev_indices, rn_local_trust, rn_seed_trust,
             rn_hist, rn_pre>>
et_vars == <<et_pc, et_job, et_runs, et_cur, et_verdict>>
jb_vars == <<jb_ev, jb_pc, jb_disk, jb_gets, jb_tasks, jb_stage2, jb_uploads, jb_out>>
nm_vars == <<nm_in, nm_out>>
dm_vars == <<dm_runner, dm_last>>
ext_vars == <<sv_vars, olt_vars, rn_vars, et_vars, jb_vars, nm_vars, dm_vars>>
vars == <<mk_vars, chain, ch_vars, cp_vars, ext_vars>>

\* ------------------------------------------------------------------------
\* Bounds of the model
\* ------------------------------------------------------------------------
MaxLeaves == 3
MaxBlock == 3
MaxTicks == 2

Min(a, b) == IF a < b THEN a ELSE b

\* ------------------------------------------------------------------------
\* Hashes (common/src/merkle/mod.rs).  A Hash is a term: <<n>> is an atomic
\* 32-byte value (n = 0 is Hash::default(), the all-zero hash), and
\* hash_two(l, r) is the term <<l, r>>: the hash is injective and no atom is
\* the hash of a pair.
\* ------------------------------------------------------------------------
Zero == <<0>>

hash_two(left, right) == <<left, right>>

\* Leaf hashes the trees of the model are built from: the zero hash, two
\* other atoms and one value that is itself the hash of a pair.
LeafHashes == {Zero, <<1>>, <<2>>, hash_two(<<1>>, <<2>>)}

\* A hash that is no node of any tree built from LeafHashes.
WrongHash == <<99>>

\* ------------------------------------------------------------------------
\* DenseMerkleTree (common/src/merkle/fixed.rs)
\* ------------------------------------------------------------------------
RECURSIVE Pow2AtLeast(_, _)
Pow2AtLeast(n, p) == IF p >= n THEN p ELSE Pow2AtLeast(n, 2 * p)

\* usize::next_power_of_two: the smallest power of two >= n (1 for n = 0)
next_power_of_two(n) == Pow2AtLeast(n, 1)

\* u64::BITS - leading_zeros(p): the number of significant bits of p
RECURSIVE BitLength(_)
BitLength(p) == IF p = 0 THEN 0 ELSE 1 + BitLength(p \div 2)

RECURSIVE Pow2(_)
Pow2(e) == IF e = 0 THEN 1 ELSE 2 * Pow2(e - 1)

\* leaves.extend(vec![Hash::default(); diff])
PadLeaves(leaves) ==
    leaves \o [j \in 1 .. (next_power_of_two(Len(leaves)) - Len(leaves)) |-> Zero]

\* defaults[i], 0-based as in the code: defaults[0] = Hash::default(),
\* defaults[i] = hash_two(defaults[i-1], defaults[i-1])
RECURSIVE DefaultAt(_)
DefaultAt(i) == IF i = 0 THEN Zero ELSE hash_two(DefaultAt(i - 1), DefaultAt(i - 1))

\* One level of the build: nodes.chunks(2) hashed pairwise; a lone last node
\* is hashed with the level's default.
NextLevel(nodes, i) ==
    [j \in 1 .. ((Len(nodes) + 1) \div 2) |->
        IF 2 * j <= Len(nodes)
        THEN hash_two(nodes[2 * j - 1], nodes[2 * j])
        ELSE hash_two(nodes[2 * j - 1], DefaultAt(i))]

RECURSIVE LevelNodes(_, _)
LevelNodes(padded, i) ==
    IF i = 0 THEN padded ELSE NextLevel(LevelNodes(padded, i - 1), i - 1)

\* DenseMerkleTree::new
NewTree(leaves) ==
    LET padded == PadLeaves(leaves)
        num_levels == BitLength(next_power_of_two(Len(leaves)))
    IN  [nodes      |-> [i \in 0 .. num_levels |-> LevelNodes(padded, i)],
         num_levels |-> num_levels,
         defaults   |-> [i \in 0 .. (num_levels - 1) |-> DefaultAt(i)]]

\* DenseMerkleTree::root: nodes[num_levels][0]
root(tree) == tree.nodes[tree.num_levels][1]

\* index of the sibling of current_index
MutSiblingIndexAlwaysRight(current_index) == current_index + 1

SiblingIndex(current_index) ==
    IF current_index % 2 = 0 THEN current_index + 1 ELSE current_index - 1

\* The sibling pushed at `level` for the leaf `index`
SiblingHash(tree, index, level) ==
    LET current_index == index \div Pow2(level)
        sibling_index == SiblingIndex(current_index)
        level_nodes   == tree.nodes[level]
    IN  IF sibling_index < Len(level_nodes)
        THEN level_nodes[sibling_index + 1]
        ELSE tree.defaults[level]

\* DenseMerkleTree::generate_path: Err(NodesNotFound) for an index outside
\* the padded leaves, else the siblings from the leaf level upward
generate_path(tree, index) ==
    IF index >= Len(tree.nodes[0])
    THEN [ok |-> FALSE, path |-> <<>>]
    ELSE [ok |-> TRUE,
          path |-> [l \in 1 .. tree.num_levels |-> SiblingHash(tree, index, l - 1)]]

\* One step of verify_path's loop
MutVerifyStepIgnoresParity(current, current_index, sibling) == hash_two(current, sibling)

VerifyStep(current, current_index, sibling) ==
    IF current_index % 2 = 0
    THEN hash_two(current, sibling)
    ELSE hash_two(sibling, current)

RECURSIVE VerifyFold(_, _, _)
VerifyFold(current, current_index, path) ==
    IF path = <<>> THEN current
    ELSE VerifyFold(VerifyStep(current, current_index, Head(path)),
                    current_index \div 2, Tail(path))

\* DenseMerkleTree::verify_path
MutVerifyPathFromDefault(leaf, index, path, expected_root) ==
    VerifyFold(Zero, index, path) = expected_root

verify_path(leaf, index, path, expected_root) ==
    VerifyFold(leaf, index, path) = expected_root

\* ------------------------------------------------------------------------
\* Specification of the Merkle tree: a tree is built from any leaves, then
\* generate_path and verify_path are called with any arguments.
\* ------------------------------------------------------------------------
RECURSIVE SeqsUpTo(_, _)
SeqsUpTo(S, n) ==
    IF n = 0 THEN {<<>>}
    ELSE LET shorter == SeqsUpTo(S, n - 1)
         IN  shorter \cup {Append(q, x) : q \in {r \in shorter : Len(r) = n - 1}, x \in S}

NoPath == [index |-> -1, ok |-> FALSE, path |-> <<>>]
NoVerify == [called |-> FALSE, leaf |-> Zero, index |-> 0, path_index |-> -1,
             expected_root |-> Zero, result |-> FALSE]
NoTree == NewTree(<<>>)

MkIdle ==
    /\ mk_leaves = <<>>
    /\ mk_tree = NoTree
    /\ mk_path = NoPath
    /\ mk_verify = NoVerify

\* number of leaves after padding
PaddedLen(tree) == Len(tree.nodes[0])

\* leaf k of the padded leaves (0-based)
LeafAt(tree, k) == tree.nodes[0][k + 1]

\* tree.generate_path(k), for any k up to one past the padded leaves.  The
\* functions are pure: one generate_path and one verify_path call per tree
\* cover every sequence of calls.
MkGeneratePath(k) ==
    /\ mk_path = NoPath
    /\ mk_path' = [index |-> k] @@ generate_path(mk_tree, k)
    /\ UNCHANGED <<mk_tree, mk_leaves, mk_verify, chain, ch_vars, cp_vars, ext_vars>>

\* DenseMerkleTree::verify_path(leaf, index, path, expected_root) with the
\* path last generated
MkVerifyPath(leaf, index, expected_root) ==
    /\ mk_path.ok
    /\ ~mk_verify.called
    /\ mk_verify' = [called        |-> TRUE,
                     leaf          |-> leaf,
                     index         |-> index,
                     path_index    |-> mk_path.index,
                     expected_root |-> expected_root,
                     result        |-> verify_path(leaf, index, mk_path.path, expected_root)]
    /\ UNCHANGED <<mk_tree, mk_leaves, mk_path, chain, ch_vars, cp_vars, ext_vars>>

\* expected roots a caller may present: the root, a hash that is no node,
\* and the node below the root
RootChoices(tree) ==
    {root(tree), WrongHash, tree.nodes[tree.num_levels - 1][1]}

MkNext ==
    \/ \E k \in 0 .. PaddedLen(mk_tree) : MkGeneratePath(k)
    \/ \E leaf \in LeafHashes \cup {WrongHash}, index \in 0 .. (PaddedLen(mk_tree) - 1),
          expected_root \in RootChoices(mk_tree) :
            MkVerifyPath(leaf, index, expected_root)

\* ------------------------------------------------------------------------
\* Initial values of the service variables (before run() is entered)
\* ------------------------------------------------------------------------
NoWindow == [from |-> -1, to |-> -1, prev_from |-> -1, prev_to |-> -1, polls |-> 0]

ChIdle ==
    /\ ch_pc = "start"
    /\ ch_requests = <<>>
    /\ ch_challenged = {}
    /\ ch_latest = 0
    /\ ch_window = NoWindow
    /\ ch_queue = <<>>
    /\ ch_calls = [id \in {1, 2} |-> 0]
    /\ ch_last = [id |-> 0, outcome |-> "none", global_result |-> TRUE,
                  sub_job_failed |-> 0, submit |-> FALSE, known |-> FALSE,
                  challenged |-> FALSE, rid |-> "none", pending |-> {}]
    /\ ch_ticks = 0

CpIdle ==
    /\ cp_pc = "start"
    /\ cp_finished = {}
    /\ cp_latest = 0
    /\ cp_window = NoWindow
    /\ cp_queue = <<>>
    /\ cp_calls = [id \in {1, 2} |-> 0]
    /\ cp_last = [id |-> 0, outcome |-> "none", submit |-> FALSE,
                  was_finished |-> FALSE, results_drained |-> TRUE]
    /\ cp_owed = {}
    /\ cp_failed = {}
    /\ cp_ticks = 0

\* the proof server before any request: no file on disk, no response
NoFile == [state |-> "missing", content |-> <<>>]

NoResponse ==
    [status |-> 0, score |-> 0, score_index |-> 0, scores_tree_path |-> <<>>,
     scores_tree_root |-> Zero, meta_index |-> 0, meta_tree_path |-> <<>>,
     meta_tree_root |-> Zero]

NoCheck == [done |-> FALSE, scores_ok |-> FALSE, meta_ok |-> FALSE]

SvIdle ==
    /\ sv_meta = NoFile
    /\ sv_scores = <<>>
    /\ sv_resp = NoResponse
    /\ sv_check = NoCheck

\* OutboundLocalTrust::new(): no score, sum 0.0
NewRow == [outbound_trust_scores |-> <<>>, outbound_sum |-> 0]

OltIdle ==
    /\ olt = NewRow
    /\ olt_ops = 0

NoPre == [times |-> 0, lt |-> <<>>, seed |-> <<>>, panicked |-> FALSE]

\* the runner after new(): count 0, every map empty
RnIdle ==
    /\ rn_count = 0
    /\ rn_indices = <<>>
    /\ rn_rev_indices = <<>>
    /\ rn_local_trust = <<>>
    /\ rn_seed_trust = <<>>
    /\ rn_hist = [order |-> <<>>, trust |-> <<>>, seed |-> <<>>, had_trust |-> {},
                 had_seed |-> {}, entries |-> 0]
    /\ rn_pre = NoPre

NoJob == [trust |-> <<>>, seed |-> <<>>]

NoVerdict == [done |-> FALSE]

NoRun == [threads |-> 0, lt |-> <<>>, seed |-> <<>>, scores |-> <<>>, i |-> 0]

EtIdle ==
    /\ et_pc = "idle"
    /\ et_job = NoJob
    /\ et_runs = <<>>
    /\ et_cur = NoRun
    /\ et_verdict = NoVerdict

NoStage2 == [i |-> 0, done |-> <<>>, global_result |-> TRUE, sub_job_failed |-> 0]

NoOutcome == [rebuilt |-> FALSE, commitment_result |-> TRUE, challenge_window_open |-> TRUE,
              meta_uploaded |-> FALSE, submitted |-> FALSE]

JbIdle ==
    /\ jb_ev = [service |-> "none"]
    /\ jb_pc = "start"
    /\ jb_disk = <<>>
    /\ jb_gets = <<>>
    /\ jb_tasks = <<>>
    /\ jb_stage2 = NoStage2
    /\ jb_uploads = <<>>
    /\ jb_out = NoOutcome

NoNorm == [algo |-> "none"]

NmIdle == nm_in = <<>> /\ nm_out = NoNorm

NoRunner == [built |-> FALSE]

NoCall == [op |-> "none"]

DmIdle == dm_runner = NoRunner /\ dm_last = NoCall

\* the parts modelled after the first three, before anything ran
ExtIdle == SvIdle /\ OltIdle /\ RnIdle /\ EtIdle /\ JbIdle /\ NmIdle /\ DmIdle

MkInit ==
    /\ mk_leaves \in SeqsUpTo(LeafHashes, MaxLeaves)
    /\ mk_tree = NewTree(mk_leaves)
    /\ mk_path = NoPath
    /\ mk_verify = NoVerify
    /\ chain = <<>>
    /\ ChIdle
    /\ CpIdle
    /\ ExtIdle

SpecMerkle == MkInit /\ [][MkNext]_vars

\* ---- claims about the fixed Merkle tree --------------------------------

\* The last verify_path call used the path of leaf k with the tree's root
VerifiedOwnPath ==
    /\ mk_verify.called
    /\ mk_verify.expected_root = root(mk_tree)
    /\ mk_verify.leaf = LeafAt(mk_tree, mk_verify.path_index)

\* C8: for a tree built from n leaves and every index k below the padded
\* leaf count, verify_path(leaf[k], k, generate_path(k), root()) is true
\* (a padded position has the zero hash as its leaf).
C8_RoundTrip ==
    (VerifiedOwnPath /\ mk_verify.index = mk_verify.path_index)
        => mk_verify.result = TRUE

\* the round trip was made for a padded position of a tree of three leaves
C8_Witness ==
    /\ VerifiedOwnPath
    /\ mk_verify.index = mk_verify.path_index
    /\ Len(mk_leaves) = 3
    /\ mk_verify.path_index = 3
    /\ mk_verify.result = TRUE

\* C9: with the path generate_path(k) and index k, verify_path is false when
\* the leaf is any hash other than leaf[k] (root kept), and false when the
\* expected root is any hash other than root() (leaf kept).
C9_WrongLeafOrRootFails ==
    (/\ mk_verify.called
     /\ mk_verify.index = mk_verify.path_index
     /\ \/ /\ mk_verify.leaf # LeafAt(mk_tree, mk_verify.path_index)
           /\ mk_verify.expected_root = root(mk_tree)
        \/ /\ mk_verify.leaf = LeafAt(mk_tree, mk_verify.path_index)
           /\ mk_verify.expected_root # root(mk_tree))
        => mk_verify.result = FALSE

\* a wrong leaf was rejected against the right root
C9_Witness ==
    /\ mk_verify.called
    /\ mk_verify.index = mk_verify.path_index
    /\ Len(mk_leaves) >= 2
    /\ mk_verify.leaf # LeafAt(mk_tree, mk_verify.path_index)
    /\ mk_verify.leaf \in LeafHashes
    /\ mk_verify.expected_root = root(mk_tree)
    /\ mk_verify.result = FALSE

\* the node on the path of leaf k at `level`
PathNode(tree, k, level) == tree.nodes[level][(k \div Pow2(level)) + 1]

\* k and k2 take different sides at `level`
SidesDiffer(k, k2, level) == ((k \div Pow2(level)) % 2) # ((k2 \div Pow2(level)) % 2)

\* at some level where k and k2 take different sides, the node on k's path
\* differs from its sibling
SwapVisible(tree, k, k2) ==
    \E level \in 0 .. (tree.num_levels - 1) :
        /\ SidesDiffer(k, k2, level)
        /\ PathNode(tree, k, level) # SiblingHash(tree, k, level)

\* C10 as claimed: verify_path(leaf[k], k', generate_path(k), root()) is
\* false for every index k' # k in the padded range, whatever the leaves.
C10_AnyOtherIndexFails ==
    (VerifiedOwnPath /\ mk_verify.index # mk_verify.path_index)
        => mk_verify.result = FALSE

\* C10 amended: verify_path(leaf[k], k', generate_path(k), root()) is false
\* for every k' # k for which, at some level where k and k' take different
\* sides, the node on k's path differs from its sibling; it is true when
\* node and sibling are equal at every such level.
C10_OtherIndexFailsUnlessSiblingsEqual ==
    (VerifiedOwnPath /\ mk_verify.index # mk_verify.path_index)
        => (mk_verify.result = FALSE
              <=> SwapVisible(mk_tree, mk_verify.path_index, mk_verify.index))

\* another index was rejected on a tree of distinct leaves
C10_Witness ==
    /\ VerifiedOwnPath
    /\ mk_verify.index # mk_verify.path_index
    /\ mk_leaves = << <<1>>, <<2>>, Zero >>
    /\ mk_verify.path_index = 0
    /\ mk_verify.index = 3
    /\ mk_verify.result = FALSE

\* ------------------------------------------------------------------------
\* The chain and the blob store.
\* Block b (1-based; block 0 is the empty genesis block) holds the log
\* chain[b].  A log is [kind, id, decodes, data]: kind is the event whose
\* filter returns it, id the compute id, decodes whether log_decode()
\* succeeds, data the job description id (request) or the results id and
\* meta commitment (result).
\* ------------------------------------------------------------------------
ComputeIds == {1, 2}

RequestLog(id, jd) == [kind |-> "request", id |-> id, decodes |-> TRUE,
                       data |-> [meta |-> jd, commitment |-> Zero]]
ChallengeLog(id) == [kind |-> "challenge", id |-> id, decodes |-> TRUE,
                     data |-> [meta |-> "none", commitment |-> Zero]]
ResultLog(id, rid, commitment) ==
    [kind |-> "result", id |-> id, decodes |-> TRUE,
     data |-> [meta |-> rid, commitment |-> commitment]]
GarbledLog(kind, id) == [kind |-> kind, id |-> id, decodes |-> FALSE,
                         data |-> [meta |-> "none", commitment |-> Zero]]

\* hash_leaf of a score value: an atom of its own for every value, none of
\* them the zero hash or one of the atoms above
hash_leaf(value) == <<1000 + value>>

\* A hex string as stored in a JobResult: the hex of a 32-byte hash, or text
\* that hex::decode rejects.
Hex(h) == [valid |-> TRUE, hash |-> h]
NotHex == [valid |-> FALSE, hash |-> Zero]

\* Scores blobs by scores_id: the leaves are the hashes of the score values
\* in file order; converges is what compute_verification returns for these
\* scores against the sub-job's trust and seed ("err": a score entry names
\* an id the runner has no index for).
ScoresBlobs ==
    [sid \in {"sA", "sB", "sDiverge", "sUnknownId"} |->
        CASE sid = "sA"         -> [leaves |-> <<hash_leaf(1), hash_leaf(2)>>, converges |-> "true"]
          [] sid = "sB"         -> [leaves |-> <<hash_leaf(2)>>, converges |-> "true"]
          [] sid = "sDiverge"   -> [leaves |-> <<hash_leaf(1), hash_leaf(1)>>, converges |-> "false"]
          [] sid = "sUnknownId" -> [leaves |-> <<hash_leaf(1)>>, converges |-> "err"]]

\* the compute tree root of a scores blob
ScoresRoot(sid) == root(NewTree(ScoresBlobs[sid].leaves))

JobResult(scores_id, commitment) == [scores_id |-> scores_id, commitment |-> commitment]

\* Job descriptions by id: one entry (trust_id, seed_id) per sub-job;
\* hex is whether the blob ids are the hex of 32 bytes.
JobDescriptions ==
    [jd \in {"jd2", "jdShared", "jdNotHex"} |->
        CASE jd = "jd2"      -> <<[trust_id |-> "t0", seed_id |-> "s0", hex |-> TRUE],
                                  [trust_id |-> "t1", seed_id |-> "s1", hex |-> TRUE]>>
          [] jd = "jdShared" -> <<[trust_id |-> "t0", seed_id |-> "s0", hex |-> TRUE],
                                  [trust_id |-> "t0", seed_id |-> "s1", hex |-> TRUE]>>
          [] jd = "jdNotHex" -> <<[trust_id |-> "zz", seed_id |-> "s0", hex |-> FALSE]>>]

\* Results metadata by results id
ResultsMeta ==
    [rid \in {"honest", "fabFirst", "longer", "secondBad", "shorter", "notHex",
              "unknownId"} |->
        CASE rid = "honest"    -> <<JobResult("sA", Hex(ScoresRoot("sA"))),
                                    JobResult("sB", Hex(ScoresRoot("sB")))>>
          [] rid = "fabFirst"  -> <<JobResult("sA", Hex(WrongHash)),
                                    JobResult("sB", Hex(ScoresRoot("sB")))>>
          [] rid = "longer"    -> <<JobResult("sA", Hex(ScoresRoot("sA"))),
                                    JobResult("sB", Hex(ScoresRoot("sB"))),
                                    JobResult("sB", Hex(ScoresRoot("sB")))>>
          [] rid = "secondBad" -> <<JobResult("sA", Hex(ScoresRoot("sA"))),
                                    JobResult("sDiverge", Hex(ScoresRoot("sDiverge")))>>
          [] rid = "shorter"   -> <<JobResult("sA", Hex(ScoresRoot("sA")))>>
          [] rid = "notHex"    -> <<JobResult("sA", Hex(ScoresRoot("sA"))),
                                    JobResult("sB", NotHex)>>
          [] rid = "unknownId" -> <<JobResult("sUnknownId", Hex(WrongHash)),
                                    JobResult("sB", Hex(ScoresRoot("sB")))>>]

\* the claimed sub-job commitments of a results list, decoded
ClaimedCommitments(results) == [i \in 1 .. Len(results) |-> results[i].commitment.hash]

\* the meta commitment a results list commits to
MetaRoot(rid) == root(NewTree(ClaimedCommitments(ResultsMeta[rid])))

\* the logs of blocks from .. to of kind `kind`, in block order
RECURSIVE LogsIn(_, _, _, _)
LogsIn(ch, from, to, kind) ==
    IF from > to \/ from > Len(ch) THEN <<>>
    ELSE IF from >= 1 /\ ch[from].kind = kind
         THEN <<ch[from]>> \o LogsIn(ch, from + 1, to, kind)
         ELSE LogsIn(ch, from + 1, to, kind)

\* a block is mined with one log
ChainMine(log) ==
    /\ Len(chain) < MaxBlock
    /\ chain' = Append(chain, log)

\* ------------------------------------------------------------------------
\* Challenger (app/src/challenger.rs)
\* ------------------------------------------------------------------------
\* block_history of run(): how many blocks the startup backfill reaches
\* back (main.rs passes BLOCK_HISTORY = 100; scaled to the model's chain)
BlockHistory == 2

\* width of the block-number arithmetic in the model (u64 in the code)
BlockModulus == 1024

\* current_block - block_history on unsigned block numbers, when it wraps
starting_block(current_block) == (current_block - BlockHistory) % BlockModulus

MapInsert(map, key, value) ==
    [k \in (DOMAIN map) \cup {key} |-> IF k = key THEN value ELSE map[k]]

\* for log in request_logs { map.insert(computeId, compute_req) }
MutInsertRequestsAfterResults(map, logs) == map

RECURSIVE InsertRequests(_, _)
InsertRequests(map, logs) ==
    IF logs = <<>> THEN map
    ELSE InsertRequests(MapInsert(map, Head(logs).id, Head(logs).data.meta), Tail(logs))

SeqIds(logs) == {logs[i].id : i \in 1 .. Len(logs)}

AllDecode(logs) == \A i \in 1 .. Len(logs) : logs[i].decodes

\* VerificationRunner::verify_job: Ok(is_root_equal && is_converged), or Err
\* when compute_verification fails
MutVerifyJobIgnoresRoot(scores_id, commitment) ==
    LET converged == ScoresBlobs[scores_id].converges
    IN  IF converged = "err" THEN [ok |-> FALSE, value |-> FALSE]
        ELSE [ok |-> TRUE, value |-> converged = "true"]

verify_job(scores_id, commitment) ==
    LET is_root_equal == (commitment = ScoresRoot(scores_id))
        converged     == ScoresBlobs[scores_id].converges
    IN  IF converged = "err" THEN [ok |-> FALSE, value |-> FALSE]
        ELSE [ok |-> TRUE, value |-> is_root_equal /\ (converged = "true")]

\* STAGE 2 of handle_meta_compute_result from sub-job i (0-based) on: the
\* first sub-job whose verify_job is false sets global_result = false and
\* sub_job_failed = i and ends the loop; an error ends the handler.
RECURSIVE Stage2(_, _)
Stage2(results, i) ==
    IF i >= Len(results)
    THEN [ok |-> TRUE, global_result |-> TRUE, sub_job_failed |-> 0]
    ELSE LET compute_res == results[i + 1]
         IN  IF ~compute_res.commitment.valid
             THEN [ok |-> FALSE, global_result |-> TRUE, sub_job_failed |-> 0]
             ELSE LET result == verify_job(compute_res.scores_id, compute_res.commitment.hash)
                  IN  IF ~result.ok
                      THEN [ok |-> FALSE, global_result |-> TRUE, sub_job_failed |-> 0]
                      ELSE IF ~result.value
                           THEN [ok |-> TRUE, global_result |-> FALSE, sub_job_failed |-> i]
                           ELSE Stage2(results, i + 1)

\* what one invocation of the handler did
Handling(id, outcome, global_result, sub_job_failed, submit) ==
    [id |-> id, outcome |-> outcome, global_result |-> global_result,
     sub_job_failed |-> sub_job_failed, submit |-> submit]

NoHandling == Handling(0, "none", TRUE, 0, FALSE)

\* if !global_result { contract.submitMetaChallenge(..) }
SubmitsChallenge(global_result) == ~global_result

\* what the handler does when a step returns Err: the `?` returns before
\* the submission
MutOnErrorSubmit(id) == Handling(id, "error", FALSE, 0, TRUE)

OnError(id) == Handling(id, "error", TRUE, 0, FALSE)

\* The steps of the handler after both skip checks passed and the job
\* description was downloaded: task construction (job_description[i] for
\* every entry of the results list), STAGE 1, STAGE 2, the meta commitment
\* check and the submission.
VerifyAndSubmit(ev, job_description, io) ==
    LET meta_result == ResultsMeta[ev.data.meta]
        stage2      == Stage2(meta_result, 0)
    IN  IF Len(meta_result) > Len(job_description)
        THEN Handling(ev.id, "panic", TRUE, 0, FALSE)
        ELSE IF io = "file_err" \/ ~stage2.ok
             \/ \E i \in 1 .. Len(meta_result) : ~meta_result[i].commitment.valid
        THEN OnError(ev.id)
        ELSE LET meta_commitment   == root(NewTree(ClaimedCommitments(meta_result)))
                 commitment_result == (meta_commitment = ev.data.commitment)
                 global_result     == stage2.global_result /\ commitment_result
             IN  Handling(ev.id, "ok", global_result, stage2.sub_job_failed,
                          SubmitsChallenge(global_result))

\* the request is in meta_compute_request_map
RequestKnown(id, requests) == id \in DOMAIN requests

\* the compute id is in meta_challanged_jobs_map
AlreadyChallenged(id, challenged) == id \in challenged

\* handle_meta_compute_result.  io is the step of this invocation that
\* fails, if any: "meta_err" (results metadata download), "rpc_err"
\* (get_block), "job_meta_err" (job description download, create_dir_all),
\* "file_err" (a STAGE 1 download, File::open, CSV parse), "send_err" (the
\* submission's send or watch).
handle_meta_compute_result(ev, requests, challenged, io) ==
    IF io = "meta_err" \/ io = "rpc_err" THEN OnError(ev.id)
    ELSE IF AlreadyChallenged(ev.id, challenged)
         THEN Handling(ev.id, "skip_challenged", TRUE, 0, FALSE)
    ELSE IF ~RequestKnown(ev.id, requests)
         THEN Handling(ev.id, "skip_no_request", TRUE, 0, FALSE)
    ELSE IF io = "job_meta_err" THEN OnError(ev.id)
    ELSE VerifyAndSubmit(ev, JobDescriptions[requests[ev.id]], io)

IoOutcomes == {"ok", "meta_err", "rpc_err", "job_meta_err", "file_err", "send_err"}

\* the logs the challenger's chain is mined from
ChLogs ==
    {RequestLog(1, "jd2"), ChallengeLog(1),
     ResultLog(1, "honest", MetaRoot("honest")),
     ResultLog(1, "fabFirst", MetaRoot("fabFirst")),
     ResultLog(2, "fabFirst", MetaRoot("fabFirst")),
     ResultLog(1, "longer", MetaRoot("longer")),
     GarbledLog("result", 1)}

\* a panic ends run(): before the loop is entered the service never
\* started ("aborted"), inside the loop it dies ("crashed")
PanicPc(pc) == IF pc = "backfill" THEN "aborted" ELSE "crashed"

\* run() up to the historical log queries and the two insert loops
ChStartup ==
    /\ ch_pc = "start"
    /\ LET current_block  == Len(chain)
           from           == starting_block(current_block)
           request_logs   == LogsIn(chain, from, current_block, "request")
           challenge_logs == LogsIn(chain, from, current_block, "challenge")
           result_logs    == LogsIn(chain, from, current_block, "result")
       IN  /\ ch_window' = [from |-> from, to |-> current_block,
                            prev_from |-> -1, prev_to |-> -1, polls |-> 1]
           /\ IF AllDecode(request_logs) /\ AllDecode(challenge_logs)
              THEN /\ ch_requests' = InsertRequests(ch_requests, request_logs)
                   /\ ch_challenged' = ch_challenged \cup SeqIds(challenge_logs)
                   /\ ch_queue' = result_logs
                   /\ ch_pc' = "backfill"
              ELSE /\ ch_pc' = "aborted"
                   /\ UNCHANGED <<ch_requests, ch_challenged, ch_queue>>
    /\ UNCHANGED <<ch_latest, ch_calls, ch_last, ch_ticks, chain, mk_vars, cp_vars, ext_vars>>

\* current_block - block_history overflows and the build checks overflow
ChStartupOverflowPanic ==
    /\ ch_pc = "start"
    /\ Len(chain) < BlockHistory
    /\ ch_pc' = "aborted"
    /\ UNCHANGED <<ch_requests, ch_challenged, ch_latest, ch_window, ch_queue,
                   ch_calls, ch_last, ch_ticks, chain, mk_vars, cp_vars, ext_vars>>

\* one pass of the loop up to the two insert loops
ChTick ==
    /\ ch_pc = "idle"
    /\ ch_ticks < MaxTicks
    /\ LET current_block  == Len(chain)
           from           == ch_latest
           request_logs   == LogsIn(chain, from, current_block, "request")
           challenge_logs == LogsIn(chain, from, current_block, "challenge")
           result_logs    == LogsIn(chain, from, current_block, "result")
       IN  /\ ch_window' = [from |-> from, to |-> current_block,
                            prev_from |-> ch_window.from, prev_to |-> ch_window.to,
                            polls |-> Min(ch_window.polls + 1, 2)]
           /\ IF AllDecode(request_logs) /\ AllDecode(challenge_logs)
              THEN /\ ch_requests' = InsertRequests(ch_requests, request_logs)
                   /\ ch_challenged' = ch_challenged \cup SeqIds(challenge_logs)
                   /\ ch_queue' = result_logs
                   /\ ch_pc' = "tick"
              ELSE /\ ch_pc' = "crashed"
                   /\ UNCHANGED <<ch_requests, ch_challenged, ch_queue>>
    /\ ch_ticks' = ch_ticks + 1
    /\ UNCHANGED <<ch_latest, ch_calls, ch_last, chain, mk_vars, cp_vars, ext_vars>>

\* get_block_number or get_logs returns Err inside the loop: .unwrap() panics
ChTickRpcFails ==
    /\ ch_pc = "idle"
    /\ ch_ticks < MaxTicks
    /\ ch_pc' = "crashed"
    /\ ch_ticks' = ch_ticks + 1
    /\ UNCHANGED <<ch_requests, ch_challenged, ch_latest, ch_window, ch_queue,
                   ch_calls, ch_last, chain, mk_vars, cp_vars, ext_vars>>

\* the next result log does not decode: log_decode().unwrap() panics
ChResultUndecodable ==
    /\ ch_pc \in {"backfill", "tick"}
    /\ ch_queue # <<>>
    /\ ~Head(ch_queue).decodes
    /\ ch_pc' = PanicPc(ch_pc)
    /\ UNCHANGED <<ch_requests, ch_challenged, ch_latest, ch_window, ch_queue,
                   ch_calls, ch_last, ch_ticks, chain, mk_vars, cp_vars, ext_vars>>

\* the next result log is decoded and handle_meta_compute_result runs on it
ChHandleResult(io) ==
    /\ ch_pc \in {"backfill", "tick"}
    /\ ch_queue # <<>>
    /\ Head(ch_queue).decodes
    /\ LET ev == Head(ch_queue)
           h  == handle_meta_compute_result(ev, ch_requests, ch_challenged, io)
       IN  /\ ch_last' = [id |-> h.id, outcome |-> h.outcome,
                          global_result |-> h.global_result,
                          sub_job_failed |-> h.sub_job_failed,
                          submit |-> h.submit,
                          known |-> ev.id \in DOMAIN ch_requests,
                          challenged |-> ev.id \in ch_challenged,
                          rid |-> ev.data.meta,
                          pending |-> IF h.outcome = "skip_no_request"
                                      THEN ch_last.pending \cup {ev.id}
                                      ELSE IF h.outcome \in {"ok", "error"}
                                           THEN ch_last.pending \ {ev.id}
                                           ELSE ch_last.pending]
           /\ ch_calls' = IF h.submit THEN [ch_calls EXCEPT ![ev.id] = @ + 1]
                          ELSE ch_calls
           /\ IF h.outcome = "panic"
              THEN ch_pc' = PanicPc(ch_pc) /\ UNCHANGED ch_queue
              ELSE ch_pc' = ch_pc /\ ch_queue' = Tail(ch_queue)
    /\ UNCHANGED <<ch_requests, ch_challenged, ch_latest, ch_window, ch_ticks, chain,
                   mk_vars, cp_vars, ext_vars>>

\* every result log of the pass was handled: latest_processed_block = current_block
ChPassEnd ==
    /\ ch_pc \in {"backfill", "tick"}
    /\ ch_queue = <<>>
    /\ ch_latest' = ch_window.to
    /\ ch_pc' = "idle"
    /\ UNCHANGED <<ch_requests, ch_challenged, ch_window, ch_queue, ch_calls,
                   ch_last, ch_ticks, chain, mk_vars, cp_vars, ext_vars>>

\* Blocks are mined while the service is between passes: a pass reads the
\* logs once, at its start, so a block mined during a pass is seen exactly
\* as one mined right after it.  No block is mined once the passes of the
\* model are used up: nothing would read it.
ChMine ==
    /\ ch_pc \in {"start", "idle"}
    /\ ch_ticks < MaxTicks
    /\ \E log \in ChLogs : ChainMine(log)
    /\ UNCHANGED <<ch_vars, mk_vars, cp_vars, ext_vars>>

ChNext ==
    \/ ChMine
    \/ ChStartup
    \/ ChStartupOverflowPanic
    \/ ChTick
    \/ ChTickRpcFails
    \/ ChResultUndecodable
    \/ \E io \in IoOutcomes : ChHandleResult(io)
    \/ ChPassEnd

ChInit ==
    /\ chain = <<>>
    /\ ChIdle
    /\ CpIdle
    /\ MkIdle
    /\ ExtIdle

SpecChallenger == ChInit /\ [][ChNext]_vars

\* ---- claims about the challenger ---------------------------------------

\* C1: across any sequence of passes and any number of repeated
\* MetaComputeResult events for one compute id, submitMetaChallenge is
\* called at most once for that compute id.
C1_AtMostOneChallengePerId == \A id \in ComputeIds : ch_calls[id] <= 1

\* the first entry of the results list claims a commitment that is not the
\* root of the tree built from its scores blob
FirstCommitmentDiffers(rid) ==
    /\ rid \in DOMAIN ResultsMeta
    /\ LET first == ResultsMeta[rid][1]
       IN  first.commitment.valid /\ first.commitment.hash # ScoresRoot(first.scores_id)

\* the last handled result had a known request, an unchallenged id and a
\* fabricated first commitment
FabricatedResultHandled ==
    /\ ch_last.outcome # "none"
    /\ ch_last.known
    /\ ~ch_last.challenged
    /\ FirstCommitmentDiffers(ch_last.rid)

C3_SubmitOnlyOnFalseResult ==
    /\ ch_last.submit => (ch_last.outcome = "ok" /\ ch_last.global_result = FALSE)
    /\ ch_last.outcome = "error" => ~ch_last.submit

\* a fabricated result whose handling failed was not challenged
C3_Witness ==
    /\ FabricatedResultHandled
    /\ ch_last.outcome = "error"
    /\ ~ch_last.submit
    /\ ch_calls[ch_last.id] = 0

\* a decodable MetaComputeResult of the compute id lies in a block that a
\* later poll can still cover (polls start at latest_processed_block)
ResultInReach(id) ==
    \E b \in 1 .. Len(chain) :
        /\ b >= ch_latest
        /\ chain[b].kind = "result" /\ chain[b].decodes /\ chain[b].id = id

\* C23: a MetaComputeResult skipped because its compute id was not in the
\* requests map is handled again in a later pass once the request has been
\* recorded: between passes, a skipped result whose request is recorded by
\* now and that was not handled since is still within reach of a later poll.
C23_SkippedResultHandledAgain ==
    ch_pc = "idle" =>
        \A id \in ch_last.pending : RequestKnown(id, ch_requests) => ResultInReach(id)

\* the requests and the challenges of the window of the current pass
WindowIds(kind) == SeqIds(LogsIn(chain, ch_window.from, ch_window.to, kind))

\* C24: in the backfill and in every pass of the loop the requests of the
\* window are in the requests map and its challenges in the challenged map
\* before any result of the window is handled: the handler of a result sees
\* a request or a challenge of the same window.
C24_RequestsAndChallengesBeforeResults ==
    [][(ch_pc \in {"backfill", "tick"} /\ ch_queue # <<>> /\ Head(ch_queue).decodes) =>
           /\ Head(ch_queue).id \in WindowIds("request") => ch_last'.known
           /\ Head(ch_queue).id \in WindowIds("challenge") => ch_last'.challenged]_vars

\* in the backfill a result was handled to the end whose request lies in
\* the same window, in a later block than the result
C24_Witness ==
    /\ ch_pc = "backfill"
    /\ ch_last.outcome = "ok"
    /\ ch_last.known
    /\ \E b, c \in 1 .. Len(chain) :
          /\ b < c /\ c <= ch_window.to
          /\ chain[b].kind = "result" /\ chain[b].id = ch_last.id
          /\ chain[c].kind = "request" /\ chain[c].id = ch_last.id

\* C6: once past startup the service loop does not end on a recoverable
\* error (RPC failure, undecodable log, malformed metadata of one meta-job).
C6_ChallengerLoopSurvives == ch_pc # "crashed"

\* ------------------------------------------------------------------------
\* Computer (app/src/computer.rs)
\* ------------------------------------------------------------------------

\* the logs the computer's chain is mined from
CpLogs ==
    {RequestLog(1, "jd2"), RequestLog(2, "jd2"), RequestLog(2, "jdNotHex"),
     ResultLog(1, "honest", MetaRoot("honest")),
     ResultLog(2, "honest", MetaRoot("honest")),
     GarbledLog("result", 1), GarbledLog("request", 1)}

\* the decodable logs of a sequence
RECURSIVE Decodable(_)
Decodable(logs) ==
    IF logs = <<>> THEN <<>>
    ELSE IF Head(logs).decodes THEN <<Head(logs)>> \o Decodable(Tail(logs))
         ELSE Decodable(Tail(logs))

\* what one invocation of handle_meta_compute_request did; submit: the
\* submitMetaComputeResult call was made
Computing(id, outcome, submit) == [id |-> id, outcome |-> outcome, submit |-> submit]

\* handle_meta_compute_request.  io is the step of this invocation that
\* fails, if any: "meta_err" (job description download, create_dir_all),
\* "file_err" (a STAGE 1 download, a STAGE 2 step, a STAGE 3 upload, the
\* results metadata upload), "send_err" (the submission's send).  The blob
\* ids are hex-decoded with unwrap() when the download tasks are built.
handle_meta_compute_request(ev, io) ==
    LET meta_job == JobDescriptions[ev.data.meta]
    IN  IF io = "meta_err" THEN Computing(ev.id, "error", FALSE)
        ELSE IF \E i \in 1 .. Len(meta_job) : ~meta_job[i].hex
             THEN Computing(ev.id, "panic", FALSE)
        ELSE IF io = "file_err" THEN Computing(ev.id, "error", FALSE)
        ELSE IF io = "send_err" THEN Computing(ev.id, "error", TRUE)
        ELSE Computing(ev.id, "ok", TRUE)

CpIoOutcomes == {"ok", "meta_err", "file_err", "send_err"}

\* if finished_jobs.contains(&computeId) { continue; }
MutHandlesFinished(id, finished) == TRUE

ShouldHandle(id, finished) == id \notin finished

\* from_block of the loop's filters
MutPollFromNextBlockButOne(latest_processed_block) == latest_processed_block + 2

PollFrom(latest_processed_block) == latest_processed_block

\* every decodable MetaComputeResult of the window is in finished
ResultsDrained(window, finished) ==
    SeqIds(Decodable(LogsIn(chain, window.from, window.to, "result"))) \subseteq finished

\* run() up to the loop over result_logs
CpStartup ==
    /\ cp_pc = "start"
    /\ LET current_block == Len(chain)
           from          == starting_block(current_block)
           result_logs   == LogsIn(chain, from, current_block, "result")
           request_logs  == LogsIn(chain, from, current_block, "request")
       IN  /\ cp_window' = [from |-> from, to |-> current_block,
                            prev_from |-> -1, prev_to |-> -1, polls |-> 1]
           /\ IF AllDecode(result_logs)
              THEN /\ cp_finished' = cp_finished \cup SeqIds(result_logs)
                   /\ cp_queue' = request_logs
                   /\ cp_pc' = "backfill"
              ELSE /\ cp_pc' = "aborted"
                   /\ UNCHANGED <<cp_finished, cp_queue>>
    /\ UNCHANGED <<cp_latest, cp_calls, cp_last, cp_owed, cp_failed, cp_ticks,
                   chain, mk_vars, ch_vars, ext_vars>>

\* get_block_number or get_logs fails at startup (run returns Err), or
\* current_block - block_history overflows in a build that checks overflow
CpStartupFails ==
    /\ cp_pc = "start"
    /\ cp_pc' = "aborted"
    /\ UNCHANGED <<cp_finished, cp_latest, cp_window, cp_queue, cp_calls, cp_last,
                   cp_owed, cp_failed, cp_ticks, chain, mk_vars, ch_vars, ext_vars>>

\* one pass of the loop up to the loop over request_logs
CpTick ==
    /\ cp_pc = "idle"
    /\ cp_ticks < MaxTicks
    /\ LET current_block == Len(chain)
           from          == PollFrom(cp_latest)
           result_logs   == LogsIn(chain, from, current_block, "result")
           request_logs  == LogsIn(chain, from, current_block, "request")
       IN  /\ cp_window' = [from |-> from, to |-> current_block,
                            prev_from |-> cp_window.from, prev_to |-> cp_window.to,
                            polls |-> Min(cp_window.polls + 1, 2)]
           /\ cp_finished' = cp_finished \cup SeqIds(Decodable(result_logs))
           /\ cp_queue' = request_logs
    /\ cp_pc' = "tick"
    /\ cp_owed' = cp_failed
    /\ cp_ticks' = cp_ticks + 1
    /\ UNCHANGED <<cp_latest, cp_calls, cp_last, cp_failed, chain, mk_vars, ch_vars, ext_vars>>

\* get_block_number or get_logs returns Err inside the loop: logged, continue
MutTickRpcFailsAdvancesLatest ==
    /\ cp_pc = "idle"
    /\ cp_ticks < MaxTicks
    /\ cp_ticks' = cp_ticks + 1
    /\ cp_latest' = Len(chain)
    /\ UNCHANGED <<cp_pc, cp_finished, cp_window, cp_queue, cp_calls,
                   cp_last, cp_owed, cp_failed, chain, mk_vars, ch_vars, ext_vars>>

CpTickRpcFails ==
    /\ cp_pc = "idle"
    /\ cp_ticks < MaxTicks
    /\ cp_ticks' = cp_ticks + 1
    /\ UNCHANGED <<cp_pc, cp_finished, cp_latest, cp_window, cp_queue, cp_calls,
                   cp_last, cp_owed, cp_failed, chain, mk_vars, ch_vars, ext_vars>>

\* the next request log does not decode: run returns Err during the
\* backfill; inside the loop it is logged and skipped
CpRequestUndecodable ==
    /\ cp_pc \in {"backfill", "tick"}
    /\ cp_queue # <<>>
    /\ ~Head(cp_queue).decodes
    /\ IF cp_pc = "backfill"
       THEN cp_pc' = "aborted" /\ UNCHANGED cp_queue
       ELSE cp_pc' = cp_pc /\ cp_queue' = Tail(cp_queue)
    /\ UNCHANGED <<cp_finished, cp_latest, cp_window, cp_calls, cp_last, cp_owed,
                   cp_failed, cp_ticks, chain, mk_vars, ch_vars, ext_vars>>

\* the next request is of a finished compute id: continue
CpSkipFinished ==
    /\ cp_pc \in {"backfill", "tick"}
    /\ cp_queue # <<>>
    /\ Head(cp_queue).decodes
    /\ ~ShouldHandle(Head(cp_queue).id, cp_finished)
    /\ cp_queue' = Tail(cp_queue)
    /\ UNCHANGED <<cp_pc, cp_finished, cp_latest, cp_window, cp_calls, cp_last,
                   cp_owed, cp_failed, cp_ticks, chain, mk_vars, ch_vars, ext_vars>>

\* the next request is decoded and handle_meta_compute_request runs on it
CpHandleRequest(io) ==
    /\ cp_pc \in {"backfill", "tick"}
    /\ cp_queue # <<>>
    /\ Head(cp_queue).decodes
    /\ ShouldHandle(Head(cp_queue).id, cp_finished)
    /\ LET ev == Head(cp_queue)
           h  == handle_meta_compute_request(ev, io)
       IN  /\ cp_last' = [id |-> h.id, outcome |-> h.outcome, submit |-> h.submit,
                          was_finished |-> ev.id \in cp_finished,
                          results_drained |-> ResultsDrained(cp_window, cp_finished)]
           /\ cp_calls' = IF h.submit THEN [cp_calls EXCEPT ![ev.id] = @ + 1]
                          ELSE cp_calls
           /\ cp_failed' = IF h.outcome = "ok" THEN cp_failed \ {ev.id}
                           ELSE cp_failed \cup {ev.id}
           /\ cp_owed' = cp_owed \ {ev.id}
           /\ IF h.outcome = "panic"
              THEN cp_pc' = PanicPc(cp_pc) /\ UNCHANGED cp_queue
              ELSE cp_pc' = cp_pc /\ cp_queue' = Tail(cp_queue)
    /\ UNCHANGED <<cp_finished, cp_latest, cp_window, cp_ticks, chain, mk_vars, ch_vars, ext_vars>>

\* every request log of the pass was drained: latest_processed_block = current_block
CpPassEnd ==
    /\ cp_pc \in {"backfill", "tick"}
    /\ cp_queue = <<>>
    /\ cp_latest' = cp_window.to
    /\ cp_pc' = "idle"
    /\ UNCHANGED <<cp_finished, cp_window, cp_queue, cp_calls, cp_last, cp_owed,
                   cp_failed, cp_ticks, chain, mk_vars, ch_vars, ext_vars>>

\* blocks are mined while the service is between passes (see ChMine)
CpMine ==
    /\ cp_pc \in {"start", "idle"}
    /\ cp_ticks < MaxTicks
    /\ \E log \in CpLogs : ChainMine(log)
    /\ UNCHANGED <<cp_vars, mk_vars, ch_vars, ext_vars>>

CpNext ==
    \/ CpMine
    \/ CpStartup
    \/ CpStartupFails
    \/ CpTick
    \/ CpTickRpcFails
    \/ CpRequestUndecodable
    \/ CpSkipFinished
    \/ \E io \in CpIoOutcomes : CpHandleRequest(io)
    \/ CpPassEnd

CpInit ==
    /\ chain = <<>>
    /\ ChIdle
    /\ CpIdle
    /\ MkIdle
    /\ ExtIdle

SpecComputer == CpInit /\ [][CpNext]_vars

\* ---- claims about the computer and the polling windows -----------------

\* C4: handle_meta_compute_request is never invoked for a compute id in
\* finished_jobs, and when it is invoked every MetaComputeResult of the
\* pass's window has been added to finished_jobs.
C4_NeverHandlesFinished ==
    cp_last.outcome # "none" => (~cp_last.was_finished /\ cp_last.results_drained)

\* a request was handled in a pass whose window also held a result of
\* another compute id, and the request of that id was passed over
C4_Witness ==
    /\ cp_last.outcome = "ok"
    /\ cp_finished # {}
    /\ cp_last.id \notin cp_finished
    /\ cp_pc = "tick"
    /\ \E b \in 1 .. Len(chain) :
          /\ b >= cp_window.from /\ b <= cp_window.to
          /\ chain[b].kind = "request" /\ chain[b].decodes
          /\ chain[b].id \in cp_finished

\* block b was covered by the poll before the last one / by the last poll
InPrevWindow(b) == cp_window.prev_from <= b /\ b <= cp_window.prev_to

InWindow(b) == cp_window.from <= b /\ b <= cp_window.to

\* C5: after startup each poll covers exactly the blocks
\* latest_processed+1 .. current, so consecutive polling windows are
\* disjoint: no block that holds an event log is covered by two polls.
C5_NoLogFetchedTwice ==
    cp_window.polls >= 2 =>
        \A b \in 1 .. Len(chain) : ~(InPrevWindow(b) /\ InWindow(b))

\* C7: a meta-job whose handling failed is handled again in every later
\* pass until it succeeds or a result for its compute id is observed.
C7_FailedJobRetriedEveryPass ==
    cp_pc = "idle" => cp_owed \subseteq cp_finished

\* a pass of the loop began and ended in one step: it was given up at a
\* failed get_block_number or get_logs
TickAborted == cp_ticks' = cp_ticks + 1 /\ cp_pc' = "idle"

\* C22: latest_processed_block is set to the current block of a pass only
\* at the end of a pass whose log queries succeeded and whose fetched logs
\* were all drained; a pass given up at an RPC error leaves
\* latest_processed_block and finished_jobs as they were.
C22_LatestAdvancesOnlyAfterDrain ==
    [][/\ cp_latest' # cp_latest =>
            /\ cp_pc \in {"backfill", "tick"}
            /\ cp_queue = <<>>
            /\ cp_latest' = cp_window.to
       /\ TickAborted => (cp_latest' = cp_latest /\ cp_finished' = cp_finished)]_vars

\* a pass was completed and a later one given up at an RPC error while the
\* chain had grown: latest_processed_block stays behind the head
C22_Witness ==
    /\ cp_pc = "idle"
    /\ cp_ticks = MaxTicks
    /\ cp_window.polls = 2
    /\ cp_latest = cp_window.to
    /\ cp_latest < Len(chain)

\* ---- the two-leaf tree --------------------------------------------------

\* C11: a tree built from exactly two leaves H1, H2 has the root
\* hash_two(H1, H2), generate_path(0) is the one-element path <<H2>>, and
\* verify_path(H1, 0, <<H2>>, root) is true: no hashing level lies above the
\* pairwise reduction of the padded leaves.
C11_TwoLeafRootIsPairHash ==
    (Len(mk_leaves) = 2 /\ mk_path.ok /\ mk_path.index = 0) =>
        /\ root(mk_tree) = hash_two(mk_leaves[1], mk_leaves[2])
        /\ mk_path.path = <<mk_leaves[2]>>
        /\ verify_path(mk_leaves[1], 0, <<mk_leaves[2]>>, root(mk_tree))

\* ------------------------------------------------------------------------
\* Proof server (app/src/server.rs)
\* ------------------------------------------------------------------------
MaxJobs == 2
MaxRows == 2

\* the user_id of the request
UserId == "u1"

ScoresIds == {"f1", "f2"}

\* rows (id, value) a scores CSV is made of
ScoreRows ==
    {[id |-> "u1", value |-> 1], [id |-> "u2", value |-> 1], [id |-> "u2", value |-> 2]}

\* A file on disk: "missing" (Path::exists / File::open fails with
\* NotFound), "unreadable" (it exists, File::open fails), "garbled" (it
\* opens, the parser rejects it), or "ok" with its parsed content.
FileOf(state, content) == [state |-> state, content |-> content]

ScoresFiles ==
    {FileOf(st, <<>>) : st \in {"missing", "unreadable", "garbled"}}
        \cup {FileOf("ok", rows) : rows \in SeqsUpTo(ScoreRows, MaxRows)}

\* score_hashes: hash_leaf(value.to_be_bytes()) of every row, in row order
MutScoreHashesReversed(score_entries) ==
    [i \in 1 .. Len(score_entries) |->
        hash_leaf(score_entries[Len(score_entries) + 1 - i].value)]

ScoreHashes(score_entries) ==
    [i \in 1 .. Len(score_entries) |-> hash_leaf(score_entries[i].value)]

\* the commitments a results metadata file may hold for a scores_id: the
\* root of the tree of the local scores file, another hash, or no hex
CommitmentsFor(file) ==
    {Hex(root(NewTree(ScoreHashes(file.content)))), Hex(WrongHash), NotHex}

MetaFiles(scores) ==
    {FileOf(st, <<>>) : st \in {"missing", "garbled"}}
        \cup {FileOf("ok", results) :
                results \in SeqsUpTo(UNION {{JobResult(sid, c) : c \in CommitmentsFor(scores[sid])}
                                            : sid \in ScoresIds}, MaxJobs)}

\* score_entries.iter().enumerate() ... if entry.id() == user_id: the
\* first row of the user, 0-based; -1 if there is none
FirstRow(score_entries, user_id) ==
    LET hits == {i \in 1 .. Len(score_entries) : score_entries[i].id = user_id}
    IN  IF hits = {} THEN -1
        ELSE (CHOOSE i \in hits : \A k \in hits : i <= k) - 1

\* The loop over job_results from job_idx on: a scores file that does not
\* exist is passed over, one that cannot be opened or parsed ends the
\* handler, the first job whose scores hold the user ends the loop.
RECURSIVE FindUser(_, _, _, _)
FindUser(job_results, scores, user_id, job_idx) ==
    IF job_idx >= Len(job_results)
    THEN [outcome |-> "not_found", job_index |-> 0, score_index |-> 0]
    ELSE LET file == scores[job_results[job_idx + 1].scores_id]
         IN  IF file.state = "missing"
             THEN FindUser(job_results, scores, user_id, job_idx + 1)
             ELSE IF file.state # "ok"
             THEN [outcome |-> "error", job_index |-> job_idx, score_index |-> 0]
             ELSE IF FirstRow(file.content, user_id) >= 0
             THEN [outcome |-> "found", job_index |-> job_idx,
                   score_index |-> FirstRow(file.content, user_id)]
             ELSE FindUser(job_results, scores, user_id, job_idx + 1)

\* hex::decode(&jr.commitment).unwrap_or_default() and Hash::from_slice: a
\* commitment that is no hex decodes to no bytes, i.e. the zero hash
DecodeCommitment(commitment) == IF commitment.valid THEN commitment.hash ELSE Zero

CommitmentHashes(job_results) ==
    [i \in 1 .. Len(job_results) |-> DecodeCommitment(job_results[i].commitment)]

ErrorResponse(status) == [NoResponse EXCEPT !.status = status]

\* score_proof_handler
score_proof_handler(meta, scores, user_id) ==
    IF meta.state = "missing" THEN ErrorResponse(404)
    ELSE IF meta.state = "garbled" THEN ErrorResponse(500)
    ELSE IF meta.content = <<>> THEN ErrorResponse(404)
    ELSE LET found == FindUser(meta.content, scores, user_id, 0)
         IN  IF found.outcome = "error" THEN ErrorResponse(500)
             ELSE IF found.outcome = "not_found" THEN ErrorResponse(404)
             ELSE LET score_entries == scores[meta.content[found.job_index + 1].scores_id].content
                      scores_tree   == NewTree(ScoreHashes(score_entries))
                      meta_tree     == NewTree(CommitmentHashes(meta.content))
                  IN  [status           |-> 200,
                       score            |-> score_entries[found.score_index + 1].value,
                       score_index      |-> found.score_index,
                       scores_tree_path |-> generate_path(scores_tree, found.score_index).path,
                       scores_tree_root |-> root(scores_tree),
                       meta_index       |-> found.job_index,
                       meta_tree_path   |-> generate_path(meta_tree, found.job_index).path,
                       meta_tree_root   |-> root(meta_tree)]

\* GET /score-proof?compute_id=..&user_id=u1
SvScoreProof ==
    /\ sv_resp.status = 0
    /\ sv_resp' = score_proof_handler(sv_meta, sv_scores, UserId)
    /\ UNCHANGED <<sv_meta, sv_scores, sv_check, mk_vars, jb_vars, chain, ch_vars, cp_vars,
                   olt_vars, rn_vars, et_vars,
                   nm_vars, dm_vars>>

\* the verifier's two verify_path calls on a successful response
SvVerifyResponse ==
    /\ sv_resp.status = 200
    /\ ~sv_check.done
    /\ sv_check' =
          [done      |-> TRUE,
           scores_ok |-> verify_path(hash_leaf(sv_resp.score), sv_resp.score_index,
                                     sv_resp.scores_tree_path, sv_resp.scores_tree_root),
           meta_ok   |-> verify_path(sv_resp.scores_tree_root, sv_resp.meta_index,
                                     sv_resp.meta_tree_path, sv_resp.meta_tree_root)]
    /\ UNCHANGED <<sv_meta, sv_scores, sv_resp, mk_vars, jb_vars, chain, ch_vars, cp_vars,
                   olt_vars, rn_vars, et_vars,
                   nm_vars, dm_vars>>

SvNext ==
    \/ SvScoreProof
    \/ SvVerifyResponse

\* any scores files and any results metadata file are on disk
SvInit ==
    /\ sv_scores \in [ScoresIds -> ScoresFiles]
    /\ sv_meta \in MetaFiles(sv_scores)
    /\ sv_resp = NoResponse
    /\ sv_check = NoCheck
    /\ chain = <<>>
    /\ MkIdle
    /\ ChIdle
    /\ CpIdle
    /\ NmIdle
    /\ DmIdle
    /\ JbIdle
    /\ OltIdle
    /\ RnIdle
    /\ EtIdle

SpecServer == SvInit /\ [][SvNext]_vars

\* ---- claims about the proof server --------------------------------------

\* C12 as claimed: for every successful /score-proof response both of the
\* verifier's checks are true: verify_path(hash of the score, score_index,
\* scores_tree_path, scores_tree_root) and verify_path(scores_tree_root,
\* meta_index, meta_tree_path, meta_tree_root).
C12_BothPathsVerify ==
    sv_check.done => (sv_check.scores_ok /\ sv_check.meta_ok)

\* the persisted commitment of the sub-job the response names, as decoded
PersistedCommitment == DecodeCommitment(sv_meta.content[sv_resp.meta_index + 1].commitment)

\* C12 amended: for every successful response the scores-tree check is
\* true, and the meta-tree check is true exactly when the persisted
\* commitment of sub-job meta_index decodes to the root of the tree rebuilt
\* from the local scores file.
C12_MetaPathVerifiesIffCommitmentMatches ==
    sv_check.done =>
        /\ sv_check.scores_ok
        /\ sv_check.meta_ok <=> (PersistedCommitment = sv_resp.scores_tree_root)

\* the user was found in the second row of the second sub-job and both
\* checks passed
C12_Witness ==
    /\ sv_check.done
    /\ sv_resp.meta_index = 1
    /\ sv_resp.score_index = 1
    /\ sv_check.scores_ok
    /\ sv_check.meta_ok

\* job i (1-based) is examined: no earlier job has a readable scores file
\* that holds the user
JobReached(i) ==
    \A j \in 1 .. (i - 1) :
        LET file == sv_scores[sv_meta.content[j].scores_id]
        IN  file.state # "ok" \/ FirstRow(file.content, UserId) < 0

\* the user is in the scores of some sub-job
UserInSomeJob ==
    \E i \in 1 .. Len(sv_meta.content) :
        LET file == sv_scores[sv_meta.content[i].scores_id]
        IN  file.state = "ok" /\ FirstRow(file.content, UserId) >= 0

\* an I/O or parse step of the request fails: the results metadata file is
\* missing or does not parse, the scores file of an examined sub-job is
\* missing, unreadable or does not parse, or (the user being found) a
\* commitment is no hex
RequestFailure ==
    \/ sv_meta.state # "ok"
    \/ \E i \in 1 .. Len(sv_meta.content) :
          JobReached(i) /\ sv_scores[sv_meta.content[i].scores_id].state # "ok"
    \/ /\ UserInSomeJob
       /\ \E i \in 1 .. Len(sv_meta.content) : ~sv_meta.content[i].commitment.valid

\* C13: the handler answers 404 only when the user is found in no sub-job's
\* scores, and every I/O or parse failure (missing or unreadable results
\* metadata, missing scores file, undecodable commitment hex) yields 500.
C13_NotFoundOnlyForUnknownUser ==
    sv_resp.status # 0 =>
        /\ sv_resp.status = 404 => (sv_meta.state = "ok" /\ ~UserInSomeJob)
        /\ RequestFailure => sv_resp.status = 500

\* ------------------------------------------------------------------------
\* f32 arithmetic.  A finite f32 is an integer number of units (Unit is
\* 1.0) with at most MantBits significant bits; the result of every
\* operation is rounded to the nearest such number, ties to the even
\* significand, as IEEE-754 does with 24 bits.  Dividing by zero gives an
\* infinity or NaN.  -0.0 is not told apart from 0.0 (they compare equal).
\* ------------------------------------------------------------------------
MantBits == 6
UnitBits == 10

Unit == Pow2(UnitBits)

\* the least power of two that absorbs 1.0: BigValue + 1.0 rounds to BigValue
BigValue == Pow2(MantBits) * Unit

Inf == 1000000 * Unit
NegInf == 0 - Inf
NaN == Inf + 1

IsFinite(x) == x # NaN /\ x # Inf /\ x # NegInf

Abs(x) == IF x < 0 THEN 0 - x ELSE x

\* the spacing of the representable numbers around p / q: the least power
\* of two s with p / q < 2^MantBits * s
RECURSIVE Spacing(_, _, _)
Spacing(p, q, s) == IF p < Pow2(MantBits) * s * q THEN s ELSE Spacing(p, q, 2 * s)

\* p / d rounded to the nearest integer, ties to even
RoundHalfEven(p, d) ==
    LET f == p \div d
        r == p % d
    IN  IF 2 * r < d THEN f
        ELSE IF 2 * r > d THEN f + 1
        ELSE IF f % 2 = 0 THEN f ELSE f + 1

\* the f32 nearest to the rational p / q (q > 0)
f32_round(p, q) ==
    LET s == Spacing(Abs(p), q, 1)
        m == s * RoundHalfEven(Abs(p), q * s)
    IN  IF p < 0 THEN 0 - m ELSE m

f32_neg(a) == IF a = NaN THEN NaN ELSE 0 - a

f32_add(a, b) ==
    IF a = NaN \/ b = NaN THEN NaN
    ELSE IF ~IsFinite(a) THEN (IF ~IsFinite(b) /\ b # a THEN NaN ELSE a)
    ELSE IF ~IsFinite(b) THEN b
    ELSE f32_round(a + b, 1)

f32_sub(a, b) == f32_add(a, f32_neg(b))

f32_mul(a, b) ==
    IF a = NaN \/ b = NaN THEN NaN
    ELSE IF ~IsFinite(a) \/ ~IsFinite(b)
         THEN IF a = 0 \/ b = 0 THEN NaN
              ELSE IF (a < 0) = (b < 0) THEN Inf ELSE NegInf
    ELSE f32_round(a * b, Unit)

f32_div(a, b) ==
    IF a = NaN \/ b = NaN THEN NaN
    ELSE IF ~IsFinite(a)
         THEN IF ~IsFinite(b) THEN NaN
              ELSE IF (a < 0) = (b < 0) THEN Inf ELSE NegInf
    ELSE IF ~IsFinite(b) THEN 0
    ELSE IF b = 0
         THEN IF a = 0 THEN NaN ELSE IF a < 0 THEN NegInf ELSE Inf
    ELSE IF b < 0 THEN f32_round(0 - (a * Unit), 0 - b)
    ELSE f32_round(a * Unit, b)

\* a == b, a <= b, a > b on f32: false when an operand is NaN
f32_eq(a, b) == a # NaN /\ b # NaN /\ a = b
f32_le(a, b) == a # NaN /\ b # NaN /\ a <= b
f32_gt(a, b) == a # NaN /\ b # NaN /\ a > b

f32_abs(a) == IF a = NaN THEN NaN ELSE Abs(a)

\* the keys of a BTreeMap in ascending order
RECURSIVE SortedKeys(_)
SortedKeys(keys) ==
    IF keys = {} THEN <<>>
    ELSE LET k == CHOOSE x \in keys : \A y \in keys : x <= y
         IN  <<k>> \o SortedKeys(keys \ {k})

MapRemove(map, key) == [k \in (DOMAIN map) \ {key} |-> map[k]]

\* Iterator::sum over the values of a BTreeMap: a left fold from 0.0 in key
\* order
RECURSIVE SumFrom(_, _, _)
SumFrom(acc, map, keys) ==
    IF keys = <<>> THEN acc
    ELSE SumFrom(f32_add(acc, map[Head(keys)]), map, Tail(keys))

ValuesSum(map) == SumFrom(0, map, SortedKeys(DOMAIN map))

\* ------------------------------------------------------------------------
\* OutboundLocalTrust (common/src/runners/mod.rs)
\* ------------------------------------------------------------------------
Row(scores, sum) == [outbound_trust_scores |-> scores, outbound_sum |-> sum]

\* set_outbound_trust_scores and from_score_map: the map is stored as given
\* and the sum is recomputed from it
from_score_map(score_map) == Row(score_map, ValuesSum(score_map))

set_outbound_trust_scores(row, outbound_trust_scores) ==
    from_score_map(outbound_trust_scores)

\* norm: every score is divided by outbound_sum and the sum is set to 1.0
norm(row) ==
    Row([k \in DOMAIN row.outbound_trust_scores |->
            f32_div(row.outbound_trust_scores[k], row.outbound_sum)],
        Unit)

contains_key(row, peer_id) == peer_id \in DOMAIN row.outbound_trust_scores

\* remove: the stored value (0.0 if none) is subtracted from the sum
remove(row, peer_id) ==
    LET to_be_removed == IF contains_key(row, peer_id)
                         THEN row.outbound_trust_scores[peer_id] ELSE 0
    IN  Row(MapRemove(row.outbound_trust_scores, peer_id),
            f32_sub(row.outbound_sum, to_be_removed))

\* insert: the previous value (0.0 if none) is subtracted from the sum, the
\* new one added and stored
insert(row, peer_id, value) ==
    LET prev_value == IF contains_key(row, peer_id)
                      THEN row.outbound_trust_scores[peer_id] ELSE 0
    IN  Row(MapInsert(row.outbound_trust_scores, peer_id, value),
            f32_add(f32_sub(row.outbound_sum, prev_value), value))

\* ---- one row under any sequence of its operations ------------------------
MaxRowOps == 4

\* the peers and the f32 values the operations are called with
RowPeers == {0, 1}
RowValues == {0, Unit, BigValue}
RowMaps == UNION {[ks -> RowValues] : ks \in SUBSET RowPeers}

OltInsert(peer_id, value) ==
    /\ olt_ops < MaxRowOps
    /\ olt' = insert(olt, peer_id, value)
    /\ olt_ops' = olt_ops + 1
    /\ UNCHANGED <<mk_vars, jb_vars, chain, ch_vars, cp_vars, sv_vars, rn_vars, et_vars,
                   nm_vars, dm_vars>>

OltRemove(peer_id) ==
    /\ olt_ops < MaxRowOps
    /\ olt' = remove(olt, peer_id)
    /\ olt_ops' = olt_ops + 1
    /\ UNCHANGED <<mk_vars, jb_vars, chain, ch_vars, cp_vars, sv_vars, rn_vars, et_vars,
                   nm_vars, dm_vars>>

OltSetScores(score_map) ==
    /\ olt_ops < MaxRowOps
    /\ olt' = set_outbound_trust_scores(olt, score_map)
    /\ olt_ops' = olt_ops + 1
    /\ UNCHANGED <<mk_vars, jb_vars, chain, ch_vars, cp_vars, sv_vars, rn_vars, et_vars,
                   nm_vars, dm_vars>>

OltFromScoreMap(score_map) ==
    /\ olt_ops < MaxRowOps
    /\ olt' = from_score_map(score_map)
    /\ olt_ops' = olt_ops + 1
    /\ UNCHANGED <<mk_vars, jb_vars, chain, ch_vars, cp_vars, sv_vars, rn_vars, et_vars,
                   nm_vars, dm_vars>>

OltNorm ==
    /\ olt_ops < MaxRowOps
    /\ olt' = norm(olt)
    /\ olt_ops' = olt_ops + 1
    /\ UNCHANGED <<mk_vars, jb_vars, chain, ch_vars, cp_vars, sv_vars, rn_vars, et_vars,
                   nm_vars, dm_vars>>

OltNext ==
    \/ \E peer_id \in RowPeers, value \in RowValues : OltInsert(peer_id, value)
    \/ \E peer_id \in RowPeers : OltRemove(peer_id)
    \/ \E score_map \in RowMaps : OltSetScores(score_map)
    \/ \E score_map \in RowMaps : OltFromScoreMap(score_map)
    \/ OltNorm

OltInit ==
    /\ OltIdle
    /\ chain = <<>>
    /\ MkIdle
    /\ ChIdle
    /\ CpIdle
    /\ NmIdle
    /\ DmIdle
    /\ JbIdle
    /\ SvIdle
    /\ RnIdle
    /\ EtIdle

SpecRow == OltInit /\ [][OltNext]_vars

\* C16: in every state of a row reached by insert, remove,
\* set_outbound_trust_scores, from_score_map and norm, outbound_sum is the
\* sum of the stored scores and no stored score is zero.
C16_SumIsSumOfScoresAndNoZero ==
    /\ f32_eq(olt.outbound_sum, ValuesSum(olt.outbound_trust_scores))
    /\ \A k \in DOMAIN olt.outbound_trust_scores : olt.outbound_trust_scores[k] # 0

\* ------------------------------------------------------------------------
\* Runner state and its updates (BaseRunner of common/src/runners/mod.rs
\* for the default domain, whose trust and seed namespaces coincide, and
\* ComputeRunner of common/src/runner.rs, which repeats the same code).
\* The incremental Merkle trees update_trust and update_seed also feed are
\* not part of this state: neither the dictionary nor the maps read them.
\* ------------------------------------------------------------------------
MaxEntries == 2

Ids == {"a", "b", "c"}
EntryValues == {0, Unit, BigValue}

TrustEntry(from, to, value) == [from |-> from, to |-> to, value |-> value]
ScoreEntry(id, value) == [id |-> id, value |-> value]

TrustEntries == {TrustEntry(from, to, value) : from \in Ids, to \in Ids, value \in EntryValues}
SeedEntries == {ScoreEntry(id, value) : id \in Ids, value \in EntryValues}

Runner(count, indices, rev_indices, local_trust, seed_trust) ==
    [count |-> count, indices |-> indices, rev_indices |-> rev_indices,
     local_trust |-> local_trust, seed_trust |-> seed_trust]

\* if let Some(i) = indices.get(id) { *i } else { insert at count; count += 1 }
MutAssignIndexKeepsCount(rs, id) ==
    IF id \in DOMAIN rs.indices
    THEN [rs |-> rs, index |-> rs.indices[id]]
    ELSE [rs |-> [rs EXCEPT !.indices = MapInsert(@, id, rs.count),
                            !.rev_indices = MapInsert(@, rs.count, id)],
          index |-> rs.count]

AssignIndex(rs, id) ==
    IF id \in DOMAIN rs.indices
    THEN [rs |-> rs, index |-> rs.indices[id]]
    ELSE [rs |-> [rs EXCEPT !.indices = MapInsert(@, id, rs.count),
                            !.rev_indices = MapInsert(@, rs.count, id),
                            !.count = @ + 1],
          index |-> rs.count]

\* if is_zero && exists { remove } else if !is_zero { insert }
MutApplyTrustValueStoresZero(from_map, to_index, value) == insert(from_map, to_index, value)

ApplyTrustValue(from_map, to_index, value) ==
    LET is_zero == f32_eq(value, 0)
        exists  == contains_key(from_map, to_index)
    IN  IF is_zero /\ exists THEN remove(from_map, to_index)
        ELSE IF ~is_zero THEN insert(from_map, to_index, value)
        ELSE from_map

ApplySeedValue(seed, index, value) ==
    LET is_zero == f32_eq(value, 0)
        exists  == index \in DOMAIN seed
    IN  IF is_zero /\ exists THEN MapRemove(seed, index)
        ELSE IF ~is_zero THEN MapInsert(seed, index, value)
        ELSE seed

\* one turn of the loop of update_trust_map
TrustEntryStep(rs, entry) ==
    LET f         == AssignIndex(rs, entry.from)
        t         == AssignIndex(f.rs, entry.to)
        lt        == t.rs.local_trust
        from_map  == IF f.index \in DOMAIN lt THEN lt[f.index] ELSE NewRow
    IN  [t.rs EXCEPT !.local_trust =
            MapInsert(lt, f.index, ApplyTrustValue(from_map, t.index, entry.value))]

\* one turn of the loop of update_seed_map
SeedEntryStep(rs, entry) ==
    LET i == AssignIndex(rs, entry.id)
    IN  [i.rs EXCEPT !.seed_trust = ApplySeedValue(@, i.index, entry.value)]

RECURSIVE update_trust_map(_, _)
update_trust_map(rs, trust_entries) ==
    IF trust_entries = <<>> THEN rs
    ELSE update_trust_map(TrustEntryStep(rs, Head(trust_entries)), Tail(trust_entries))

RECURSIVE update_seed_map(_, _)
update_seed_map(rs, seed_entries) ==
    IF seed_entries = <<>> THEN rs
    ELSE update_seed_map(SeedEntryStep(rs, Head(seed_entries)), Tail(seed_entries))

\* update_trust and update_seed run the same loop body on the dictionary
\* and the maps
update_trust(rs, trust_entries) == update_trust_map(rs, trust_entries)
update_seed(rs, seed_entries) == update_seed_map(rs, seed_entries)

\* the runner held in the variables
RnState == Runner(rn_count, rn_indices, rn_rev_indices, rn_local_trust, rn_seed_trust)

\* History of the ingested entries: the ids in order of first appearance,
\* the last value given for each (from, to) pair and for each seed id, the
\* pairs and seed ids that were given a non-zero value at some time, and the
\* number of entries so far.
SeqSet(q) == {q[i] : i \in 1 .. Len(q)}

Seen(order, id) == IF id \in SeqSet(order) THEN order ELSE Append(order, id)

RECURSIVE HistTrust(_, _)
HistTrust(h, trust_entries) ==
    IF trust_entries = <<>> THEN h
    ELSE LET e == Head(trust_entries)
             k == <<e.from, e.to>>
         IN  HistTrust([order   |-> Seen(Seen(h.order, e.from), e.to),
                        trust   |-> MapInsert(h.trust, k, e.value),
                        seed    |-> h.seed,
                        had_trust |-> IF e.value # 0 THEN h.had_trust \cup {k}
                                      ELSE h.had_trust,
                        had_seed |-> h.had_seed,
                        entries |-> h.entries + 1],
                       Tail(trust_entries))

RECURSIVE HistSeed(_, _)
HistSeed(h, seed_entries) ==
    IF seed_entries = <<>> THEN h
    ELSE LET e == Head(seed_entries)
         IN  HistSeed([order   |-> Seen(h.order, e.id),
                       trust   |-> h.trust,
                       seed    |-> MapInsert(h.seed, e.id, e.value),
                       had_trust |-> h.had_trust,
                       had_seed |-> IF e.value # 0 THEN h.had_seed \cup {e.id}
                                    ELSE h.had_seed,
                       entries |-> h.entries + 1],
                      Tail(seed_entries))

RnSet(rs) ==
    /\ rn_count' = rs.count
    /\ rn_indices' = rs.indices
    /\ rn_rev_indices' = rs.rev_indices
    /\ rn_local_trust' = rs.local_trust
    /\ rn_seed_trust' = rs.seed_trust

\* the entry vectors a call may still pass
Batches(S) == SeqsUpTo(S, MaxEntries - rn_hist.entries) \ {<<>>}

RnUpdateTrustMap(trust_entries) ==
    /\ rn_pre = NoPre
    /\ RnSet(update_trust_map(RnState, trust_entries))
    /\ rn_hist' = HistTrust(rn_hist, trust_entries)
    /\ UNCHANGED <<rn_pre, mk_vars, jb_vars, chain, ch_vars, cp_vars, sv_vars, olt_vars, et_vars,
                   nm_vars, dm_vars>>

RnUpdateTrust(trust_entries) ==
    /\ rn_pre = NoPre
    /\ RnSet(update_trust(RnState, trust_entries))
    /\ rn_hist' = HistTrust(rn_hist, trust_entries)
    /\ UNCHANGED <<rn_pre, mk_vars, jb_vars, chain, ch_vars, cp_vars, sv_vars, olt_vars, et_vars,
                   nm_vars, dm_vars>>

RnUpdateSeedMap(seed_entries) ==
    /\ rn_pre = NoPre
    /\ RnSet(update_seed_map(RnState, seed_entries))
    /\ rn_hist' = HistSeed(rn_hist, seed_entries)
    /\ UNCHANGED <<rn_pre, mk_vars, jb_vars, chain, ch_vars, cp_vars, sv_vars, olt_vars, et_vars,
                   nm_vars, dm_vars>>

RnUpdateSeed(seed_entries) ==
    /\ rn_pre = NoPre
    /\ RnSet(update_seed(RnState, seed_entries))
    /\ rn_hist' = HistSeed(rn_hist, seed_entries)
    /\ UNCHANGED <<rn_pre, mk_vars, jb_vars, chain, ch_vars, cp_vars, sv_vars, olt_vars, et_vars,
                   nm_vars, dm_vars>>

\* ------------------------------------------------------------------------
\* Data-parallel reductions (rayon par_iter over a BTreeMap): the items are
\* taken in key order, an interval of two or more items is split in two
\* halves while the splitter has splits left (it starts with as many as the
\* pool has worker threads and halves them at every split), each interval
\* that is not split is folded from the left starting at 0.0, and the
\* results of two halves are added.
\* ------------------------------------------------------------------------
WorkerThreads == {1, 2}

RECURSIVE SeqSum(_, _)
SeqSum(acc, xs) == IF xs = <<>> THEN acc ELSE SeqSum(f32_add(acc, Head(xs)), Tail(xs))

RECURSIVE ParSum(_, _)
ParSum(xs, splits) ==
    LET mid == Len(xs) \div 2
    IN  IF mid >= 1 /\ splits > 0
        THEN f32_add(ParSum(SubSeq(xs, 1, mid), splits \div 2),
                     ParSum(SubSeq(xs, mid + 1, Len(xs)), splits \div 2))
        ELSE SeqSum(0, xs)

\* the values of a map in key order
ValuesOf(map) == LET ks == SortedKeys(DOMAIN map) IN [i \in 1 .. Len(ks) |-> map[ks[i]]]

\* ------------------------------------------------------------------------
\* EigenTrust pre-processing (common/src/algos/et.rs)
\* ------------------------------------------------------------------------
\* the peers one step away from the visited ones along scores > 0.0
ReachStep(lt, visited) ==
    visited \cup {j \in UNION {DOMAIN lt[i].outbound_trust_scores : i \in visited \cap DOMAIN lt} :
                    \E i \in visited \cap DOMAIN lt :
                        /\ j \in DOMAIN lt[i].outbound_trust_scores
                        /\ f32_gt(lt[i].outbound_trust_scores[j], 0)}

RECURSIVE ReachFrom(_, _)
ReachFrom(lt, visited) ==
    LET next == ReachStep(lt, visited)
    IN  IF next = visited THEN visited ELSE ReachFrom(lt, next)

\* find_reachable_peers: the peers visited from the seed keys; lt.get(i)
\* .unwrap() panics on a visited peer that has no row
find_reachable_peers(lt, seed) ==
    LET visited == ReachFrom(lt, DOMAIN seed)
    IN  [panic |-> ~(visited \subseteq DOMAIN lt), visited |-> visited]

\* if sum == 0.0 { for i in 0..count { seed.insert(i, 1.0) } }
FillSeed(seed, count, sum) ==
    IF f32_eq(sum, 0)
    THEN [i \in (DOMAIN seed) \cup (0 .. count - 1) |-> IF i < count THEN Unit ELSE seed[i]]
    ELSE seed

\* for from in 0..count: a row that is missing or whose outbound_sum is 0.0
\* is replaced by the seed vector
MutFillRowsDropsSelfTrust(lt, seed, count) ==
    [from \in (DOMAIN lt) \cup (0 .. count - 1) |->
        LET r == IF from < count /\ f32_eq(IF from \in DOMAIN lt THEN lt[from].outbound_sum ELSE 0, 0)
                 THEN from_score_map(seed)
                 ELSE lt[from]
        IN  IF contains_key(r, from) THEN remove(r, from) ELSE r]

FillRows(lt, seed, count) ==
    [from \in (DOMAIN lt) \cup (0 .. count - 1) |->
        IF from < count /\ f32_eq(IF from \in DOMAIN lt THEN lt[from].outbound_sum ELSE 0, 0)
        THEN from_score_map(seed)
        ELSE lt[from]]

\* lt.retain(|from, _| reachable.contains(from))
Retain(lt, reachable) == [from \in (DOMAIN lt) \cap reachable |-> lt[from]]

pre_process(lt, seed, count, threads) ==
    LET sum       == ParSum(ValuesOf(seed), threads)
        seed1     == FillSeed(seed, count, sum)
        lt1       == FillRows(lt, seed1, count)
        reachable == find_reachable_peers(lt1, seed1)
    IN  [panic |-> reachable.panic,
         lt    |-> Retain(lt1, reachable.visited),
         seed  |-> seed1]

\* pre_process is applied to the runner's matrix and seed vector, and then
\* to its own result
RnPreProcess(threads) ==
    /\ rn_pre.times < 2
    /\ ~rn_pre.panicked
    /\ LET pp == IF rn_pre.times = 0
                 THEN pre_process(rn_local_trust, rn_seed_trust, rn_count, threads)
                 ELSE pre_process(rn_pre.lt, rn_pre.seed, rn_count, threads)
       IN  rn_pre' = [times |-> rn_pre.times + 1, lt |-> pp.lt, seed |-> pp.seed,
                      panicked |-> pp.panic]
    /\ UNCHANGED <<rn_count, rn_indices, rn_rev_indices, rn_local_trust, rn_seed_trust,
                   rn_hist, mk_vars, jb_vars, chain, ch_vars, cp_vars, sv_vars, olt_vars, et_vars,
                   nm_vars, dm_vars>>

RnNext ==
    \/ \E trust_entries \in Batches(TrustEntries) : RnUpdateTrustMap(trust_entries)
    \/ \E trust_entries \in Batches(TrustEntries) : RnUpdateTrust(trust_entries)
    \/ \E seed_entries \in Batches(SeedEntries) : RnUpdateSeedMap(seed_entries)
    \/ \E seed_entries \in Batches(SeedEntries) : RnUpdateSeed(seed_entries)
    \/ \E threads \in WorkerThreads : RnPreProcess(threads)

RnInit ==
    /\ RnIdle
    /\ chain = <<>>
    /\ MkIdle
    /\ ChIdle
    /\ CpIdle
    /\ NmIdle
    /\ DmIdle
    /\ JbIdle
    /\ SvIdle
    /\ OltIdle
    /\ EtIdle

SpecRunner == RnInit /\ [][RnNext]_vars

\* ---- claims about the runner state ---------------------------------------

\* the dictionary is the first-appearance numbering of the ids seen so far
IndicesDense ==
    LET order == rn_hist.order
    IN  /\ rn_count = Len(order)
        /\ DOMAIN rn_indices = SeqSet(order)
        /\ \A i \in 1 .. Len(order) : rn_indices[order[i]] = i - 1
        /\ DOMAIN rn_rev_indices = 0 .. rn_count - 1
        /\ \A id \in DOMAIN rn_indices : rn_rev_indices[rn_indices[id]] = id
        /\ \A i \in DOMAIN rn_rev_indices : rn_indices[rn_rev_indices[i]] = i

\* a step keeps the index of every id that has one
IndicesStable ==
    \A id \in DOMAIN rn_indices : id \in DOMAIN rn_indices' /\ rn_indices'[id] = rn_indices[id]

\* C14: after any sequence of update_trust, update_trust_map, update_seed
\* and update_seed_map calls the indices in use are exactly 0 .. count - 1,
\* given to the ids in order of first appearance (zero-valued entries
\* included), count is the number of distinct ids seen, indices and
\* rev_indices are inverse to each other, and no assigned index changes.
C14_DenseStableIndices == [] IndicesDense /\ [][IndicesStable]_vars

\* three ids were numbered, one of them only by a zero-valued trust entry
C14_Witness ==
    /\ rn_count = 3
    /\ rn_hist.entries = 2
    /\ \E k \in DOMAIN rn_hist.trust : rn_hist.trust[k] = 0 /\ k \notin rn_hist.had_trust

\* C15: a pair (or seed id) whose last entry had value 0.0 has no cell in
\* local_trust (seed_trust), also when an earlier entry had given it a
\* non-zero value; one whose last entry had a non-zero value holds that value.
C15_ZeroRemovesNonZeroOverwrites ==
    /\ \A k \in DOMAIN rn_hist.trust :
          LET from_index == rn_indices[k[1]]
              to_index   == rn_indices[k[2]]
              value      == rn_hist.trust[k]
          IN  /\ from_index \in DOMAIN rn_local_trust
              /\ IF value = 0
                 THEN ~contains_key(rn_local_trust[from_index], to_index)
                 ELSE /\ contains_key(rn_local_trust[from_index], to_index)
                      /\ rn_local_trust[from_index].outbound_trust_scores[to_index] = value
    /\ \A id \in DOMAIN rn_hist.seed :
          LET index == rn_indices[id]
              value == rn_hist.seed[id]
          IN  IF value = 0 THEN index \notin DOMAIN rn_seed_trust
              ELSE index \in DOMAIN rn_seed_trust /\ rn_seed_trust[index] = value

\* a pair that was given a non-zero value and then 0.0
C15_Witness ==
    \E k \in rn_hist.had_trust :
        /\ rn_hist.trust[k] = 0
        /\ ~contains_key(rn_local_trust[rn_indices[k[1]]], rn_indices[k[2]])

\* C17: applying pre_process to its own result changes neither the matrix
\* nor the seed vector, for every (lt, seed, count) the runner updates reach.
C17_PreProcessIdempotent ==
    [][(rn_pre.times = 1 /\ rn_pre'.times = 2) =>
          /\ ~rn_pre'.panicked
          /\ rn_pre'.lt = rn_pre.lt
          /\ rn_pre'.seed = rn_pre.seed]_vars

\* pre_process ran twice on a runner with three peers, and dropped a row
C17_Witness ==
    /\ rn_pre.times = 2
    /\ ~rn_pre.panicked
    /\ rn_count = 3
    /\ DOMAIN rn_pre.lt # 0 .. rn_count - 1
    /\ DOMAIN rn_pre.lt # {}

\* ------------------------------------------------------------------------
\* EigenTrust (common/src/algos/et.rs).  Every par_iter reduction takes the
\* number of worker threads of the pool it runs on.
\* ------------------------------------------------------------------------
PRE_TRUST_WEIGHT == Unit \div 2

DELTA == f32_round(Unit, 100)

\* The function f itself, as an explicit table: its values are computed once
\* here instead of at every later read.
RECURSIVE EvaluatedOn(_, _)
EvaluatedOn(f, ks) ==
    IF ks = <<>> THEN <<>> ELSE (Head(ks) :> f[Head(ks)]) @@ EvaluatedOn(f, Tail(ks))

Evaluated(f) == EvaluatedOn(f, SortedKeys(DOMAIN f))

EvaluatedRows(lt) ==
    Evaluated([from \in DOMAIN lt |->
                  Row(Evaluated(lt[from].outbound_trust_scores), lt[from].outbound_sum)])

\* map.get(key).unwrap_or(&0.0)
GetOrZero(map, key) == IF key \in DOMAIN map THEN map[key] ELSE 0

normalise_lt(lt) == EvaluatedRows([from \in DOMAIN lt |-> norm(lt[from])])

\* every score divided by the parallel sum of the scores
normalise_scores(scores, threads) ==
    LET sum == ParSum(ValuesOf(scores), threads)
    IN  Evaluated([i \in DOMAIN scores |-> f32_div(scores[i], sum)])

\* iteration: for every peer that some row points to, the row contributions
\* value * origin_score are reduced over the rows in parallel (a row that
\* does not point to the peer adds nothing), then
\* PRE_TRUST_WEIGHT * pre_trust + v * (1.0 - PRE_TRUST_WEIGHT)
iteration(lt, seed, scores, threads) ==
    LET rows    == SortedKeys(DOMAIN lt)
        targets == UNION {DOMAIN lt[from].outbound_trust_scores : from \in DOMAIN lt}
        partial(from, to) ==
            IF contains_key(lt[from], to)
            THEN f32_mul(lt[from].outbound_trust_scores[to], GetOrZero(scores, from))
            ELSE 0
        raw(to) == ParSum([r \in 1 .. Len(rows) |-> partial(rows[r], to)], threads)
    IN  Evaluated([to \in targets |->
            f32_add(f32_mul(PRE_TRUST_WEIGHT, GetOrZero(seed, to)),
                    f32_mul(raw(to), f32_sub(Unit, PRE_TRUST_WEIGHT)))])

\* is_converged: the parallel sum of |next_score - v| over the scores is
\* compared with DELTA
is_converged(scores, next_scores, threads) ==
    LET ks          == SortedKeys(DOMAIN scores)
        total_delta == ParSum([i \in 1 .. Len(ks) |->
                                  f32_abs(f32_sub(GetOrZero(next_scores, ks[i]), scores[ks[i]]))],
                              threads)
    IN  [converged |-> f32_le(total_delta, DELTA), delta |-> total_delta]

\* scores.into_iter().collect(): the (index, score) pairs in index order
MutScoreVecDescending(scores) ==
    LET ks == SortedKeys(DOMAIN scores)
    IN  [i \in 1 .. Len(ks) |-> <<ks[Len(ks) + 1 - i], scores[ks[Len(ks) + 1 - i]]>>]

ScoreVec(scores) ==
    LET ks == SortedKeys(DOMAIN scores) IN [i \in 1 .. Len(ks) |-> <<ks[i], scores[ks[i]]>>]

\* F(x), where x is computed once and its value shared by every use in F
With(x, F(_)) == CHOOSE r \in {F(v) : v \in {x}} : TRUE

\* normalise_scores(&iteration(&lt, &seed, &scores))
NextScores(lt, seed, scores, threads) ==
    With(iteration(lt, seed, scores, threads),
         LAMBDA next_scores : normalise_scores(next_scores, threads))

\* positive_run and convergence_check up to the iterations: pre_process,
\* then the seed and the matrix normalised
Prepare(lt, seed, count, threads) ==
    With(pre_process(lt, seed, count, threads), LAMBDA pp :
    With(Evaluated(pp.seed), LAMBDA seed1 :
        [lt |-> normalise_lt(pp.lt), seed |-> normalise_scores(seed1, threads)]))

\* one round of the loop of positive_run: two normalised iterations from
\* the current scores; when they have converged the loop ends with the
\* first of them, otherwise it goes on from the second
RunRound(lt, seed, scores, threads) ==
    With(NextScores(lt, seed, scores, threads), LAMBDA n_plus_1_scores :
    With(NextScores(lt, seed, n_plus_1_scores, threads), LAMBDA n_plus_2_scores :
    With(is_converged(n_plus_1_scores, n_plus_2_scores, threads).converged, LAMBDA conv :
        [is_converged |-> conv, scores |-> IF conv THEN n_plus_1_scores ELSE n_plus_2_scores])))

convergence_check(lt, seed, scores, count, threads) ==
    With(Prepare(lt, seed, count, threads), LAMBDA n :
    With(NextScores(n.lt, n.seed, scores, threads), LAMBDA next_scores :
        is_converged(scores, next_scores, threads).converged))

\* ------------------------------------------------------------------------
\* One sub-job through the compute pipeline and the verification runner.
\* A job is a trust entry vector and a seed entry vector; the computer and
\* the challenger each build a runner of their own from the same entries.
\* ------------------------------------------------------------------------
MaxRuns == 2

\* the loop of positive_run has no bound; the model follows a run for at
\* most MaxIterations rounds
MaxIterations == 6


\* trust vectors over five peers: a ring, a ring with unequal weights and a
\* withdrawn entry, a star with a self-trust entry, and a triangle whose ids
\* first appear in another order than their names
TrustVectors ==
    {<<TrustEntry("a", "b", Unit), TrustEntry("b", "c", Unit), TrustEntry("c", "d", Unit),
       TrustEntry("d", "e", Unit), TrustEntry("e", "a", Unit)>>,
     <<TrustEntry("a", "b", 3 * Unit), TrustEntry("a", "c", Unit), TrustEntry("b", "c", 2 * Unit),
       TrustEntry("c", "d", Unit), TrustEntry("d", "e", BigValue), TrustEntry("d", "a", Unit),
       TrustEntry("e", "a", Unit), TrustEntry("a", "c", 0)>>,
     <<TrustEntry("a", "a", Unit), TrustEntry("a", "b", Unit), TrustEntry("a", "c", Unit),
       TrustEntry("a", "d", Unit), TrustEntry("a", "e", Unit), TrustEntry("b", "a", Unit)>>,
     <<TrustEntry("c", "a", Unit), TrustEntry("a", "b", 2 * Unit), TrustEntry("b", "c", Unit),
       TrustEntry("c", "b", Unit)>>}

\* seed vectors: every peer with the same weight, one peer with a weight
\* that absorbs the others, a single seed peer, and no seed at all
SeedVectors ==
    {<<ScoreEntry("a", Unit), ScoreEntry("b", Unit), ScoreEntry("c", Unit), ScoreEntry("d", Unit),
       ScoreEntry("e", Unit)>>,
     <<ScoreEntry("a", Unit), ScoreEntry("b", Unit), ScoreEntry("c", Unit), ScoreEntry("d", Unit),
       ScoreEntry("e", BigValue)>>,
     <<ScoreEntry("a", Unit)>>,
     <<>>}

Jobs == {[trust |-> t, seed |-> sd] : t \in TrustVectors, sd \in SeedVectors}

\* create_compute_tree: the fixed tree over hash_leaf(score.to_be_bytes())
\* of the scores in list order
create_compute_tree(values) == NewTree([i \in 1 .. Len(values) |-> hash_leaf(values[i])])

\* get_compute_scores: every (index, score) pair with the id of the index
get_compute_scores(rs, compute_results) ==
    [i \in 1 .. Len(compute_results) |->
        ScoreEntry(rs.rev_indices[compute_results[i][1]], compute_results[i][2])]

\* the end of the compute pipeline of one sub-job: the score list of the
\* compute results, the compute tree, its root as the sub-job commitment, and
\* the meta commitment (the root of the tree over the commitments of the
\* meta job's sub-jobs)
FinishJob(rs, compute_results) ==
    LET commitment == root(create_compute_tree([i \in 1 .. Len(compute_results) |->
                                                   compute_results[i][2]]))
    IN  [scores          |-> get_compute_scores(rs, compute_results),
         commitment      |-> commitment,
         meta_commitment |-> root(NewTree(<<commitment>>))]

\* compute_verification: the registered scores keyed by the index of their
\* id (DomainIndexNotFound for an id without index), then convergence_check
MutComputeVerificationDropsUnknown(rs, scores, threads) ==
    LET known == {i \in 1 .. Len(scores) : scores[i].id \in DOMAIN rs.indices}
        ixs   == {rs.indices[scores[i].id] : i \in known}
        score_entries_map ==
            [ix \in ixs |->
                LET last == CHOOSE i \in known :
                                /\ rs.indices[scores[i].id] = ix
                                /\ \A j \in known : j > i => rs.indices[scores[j].id] # ix
                IN  scores[last].value]
    IN  With(Evaluated(score_entries_map), LAMBDA score_entries :
            [ok    |-> TRUE,
             value |-> convergence_check(rs.local_trust, rs.seed_trust, score_entries,
                                         rs.count, threads)])

compute_verification(rs, scores, threads) ==
    IF \E i \in 1 .. Len(scores) : scores[i].id \notin DOMAIN rs.indices
    THEN [ok |-> FALSE, value |-> FALSE]
    ELSE LET ixs == {rs.indices[scores[i].id] : i \in 1 .. Len(scores)}
             score_entries_map ==
                 [ix \in ixs |->
                     LET last == CHOOSE i \in 1 .. Len(scores) :
                                     /\ rs.indices[scores[i].id] = ix
                                     /\ \A j \in (i + 1) .. Len(scores) :
                                            rs.indices[scores[j].id] # ix
                     IN  scores[last].value]
         IN  With(Evaluated(score_entries_map), LAMBDA score_entries :
                 [ok    |-> TRUE,
                  value |-> convergence_check(rs.local_trust, rs.seed_trust, score_entries,
                                              rs.count, threads)])

\* VerificationRunner::create_compute_tree and get_root_hashes: the root of
\* the tree over the values of the registered scores, in registered order
RootOfScores(scores) ==
    root(create_compute_tree([i \in 1 .. Len(scores) |-> scores[i].value]))

\* VerificationRunner::verify_job on a runner with the registered scores
\* and commitment of one compute id
MutRunnerVerifyJobIgnoresRoot(rs, scores, commitment, threads) ==
    With(compute_verification(rs, scores, threads), LAMBDA is_converged_res :
        [ok            |-> is_converged_res.ok,
         is_root_equal |-> TRUE,
         is_converged  |-> is_converged_res.value,
         value         |-> is_converged_res.ok /\ is_converged_res.value])

runner_verify_job(rs, scores, commitment, threads) ==
    With(commitment = RootOfScores(scores), LAMBDA is_root_equal :
    With(compute_verification(rs, scores, threads), LAMBDA is_converged_res :
        [ok            |-> is_converged_res.ok,
         is_root_equal |-> is_root_equal,
         is_converged  |-> is_converged_res.value,
         value         |-> is_converged_res.ok /\ is_root_equal /\ is_converged_res.value]))

\* What a scores file registered for a compute id may hold: the scores of
\* the run, the same with the first two rows exchanged, with all the weight
\* moved to the first row, with a row for an id the job never names, with
\* no row at all, or with the first row only.
Registered(scores, how) ==
    CASE how = "honest"  -> scores
      [] how = "swapped" -> IF Len(scores) < 2 THEN scores
                            ELSE <<scores[2], scores[1]>> \o SubSeq(scores, 3, Len(scores))
      [] how = "skewed"  -> [i \in 1 .. Len(scores) |->
                                ScoreEntry(scores[i].id, IF i = 1 THEN Unit ELSE 0)]
      [] how = "unknown" -> Append(scores, ScoreEntry("z", Unit))
      [] how = "empty"   -> <<>>
      [] how = "first"   -> SubSeq(scores, 1, 1)

ScoreFiles == {"honest", "swapped", "skewed", "unknown", "empty", "first"}

\* every entry of the job has been ingested by the runner (the computer and
\* the challenger build the same runner from the same entries)
Ingested == rn_hist.entries = Len(et_job.trust) + Len(et_job.seed)

\* runner.update_trust_map(trust_entries), one entry of the loop at a time
EtIngestTrust ==
    /\ rn_hist.entries < Len(et_job.trust)
    /\ LET entry == et_job.trust[rn_hist.entries + 1]
       IN  /\ RnSet(update_trust_map(RnState, <<entry>>))
           /\ rn_hist' = HistTrust(rn_hist, <<entry>>)
    /\ UNCHANGED <<rn_pre, et_vars, mk_vars, jb_vars, chain, ch_vars, cp_vars, sv_vars, olt_vars,
                   nm_vars, dm_vars>>

\* runner.update_seed_map(seed_entries), one entry of the loop at a time
EtIngestSeed ==
    /\ rn_hist.entries >= Len(et_job.trust)
    /\ ~Ingested
    /\ LET entry == et_job.seed[rn_hist.entries - Len(et_job.trust) + 1]
       IN  /\ RnSet(update_seed_map(RnState, <<entry>>))
           /\ rn_hist' = HistSeed(rn_hist, <<entry>>)
    /\ UNCHANGED <<rn_pre, et_vars, mk_vars, jb_vars, chain, ch_vars, cp_vars, sv_vars, olt_vars,
                   nm_vars, dm_vars>>

\* handle_meta_compute_request for one sub-job on a pool of `threads`
\* workers, from compute to the loop of positive_run
EtStart(threads) ==
    /\ et_pc = "idle"
    /\ Ingested
    /\ Len(et_runs) < MaxRuns
    /\ \E n \in {Prepare(rn_local_trust, rn_seed_trust, rn_count, threads)} :
          et_cur' = [threads |-> threads, lt |-> n.lt, seed |-> n.seed, scores |-> n.seed,
                     i |-> 0]
    /\ et_pc' = "running"
    /\ UNCHANGED <<et_job, et_runs, et_verdict, mk_vars, jb_vars, chain, ch_vars, cp_vars, sv_vars,
                   olt_vars, rn_vars,
                   nm_vars, dm_vars>>

\* a round of the loop that has not converged: scores = n_plus_2_scores
EtRound ==
    /\ et_pc = "running"
    /\ et_cur.i < MaxIterations
    /\ \E round \in {RunRound(et_cur.lt, et_cur.seed, et_cur.scores, et_cur.threads)} :
          /\ ~round.is_converged
          /\ et_cur' = [et_cur EXCEPT !.scores = round.scores, !.i = @ + 1]
    /\ UNCHANGED <<et_pc, et_job, et_runs, et_verdict, mk_vars, jb_vars, chain, ch_vars, cp_vars,
                   sv_vars, olt_vars, rn_vars,
                   nm_vars, dm_vars>>

\* the round that has converged, and the rest of the handler: positive_run
\* returns, the scores and the commitments are produced
EtFinish ==
    /\ et_pc = "running"
    /\ et_cur.i < MaxIterations
    /\ \E round \in {RunRound(et_cur.lt, et_cur.seed, et_cur.scores, et_cur.threads)} :
          /\ round.is_converged
          /\ et_runs' = Append(et_runs, FinishJob(RnState, ScoreVec(round.scores)))
    /\ et_pc' = "idle"
    /\ et_cur' = NoRun
    /\ UNCHANGED <<et_job, et_verdict, mk_vars, jb_vars, chain, ch_vars, cp_vars, sv_vars, olt_vars,
                   rn_vars,
                   nm_vars, dm_vars>>

\* the challenger's check of the latest result on the runner built from the
\* job's entries: update_commitment (the commitment of the run, the root of
\* the registered scores, or an unrelated hash), update_scores, verify_job
EtVerify(how, posted, threads) ==
    /\ et_pc = "idle"
    /\ et_runs # <<>>
    /\ ~et_verdict.done
    /\ \E scores \in {Registered(et_runs[Len(et_runs)].scores, how)} :
       \E commitment \in {CASE posted = "run"  -> et_runs[Len(et_runs)].commitment
                            [] posted = "file" -> RootOfScores(scores)
                            [] posted = "none" -> WrongHash} :
       \E res \in {runner_verify_job(RnState, scores, commitment, threads)} :
           et_verdict' = [done          |-> TRUE,
                          how           |-> how,
                          scores        |-> scores,
                          commitment    |-> commitment,
                          ok            |-> res.ok,
                          is_root_equal |-> res.is_root_equal,
                          is_converged  |-> res.is_converged,
                          value         |-> res.value]
    /\ UNCHANGED <<et_pc, et_job, et_runs, et_cur, mk_vars, jb_vars, chain, ch_vars, cp_vars, sv_vars,
                   olt_vars, rn_vars,
                   nm_vars, dm_vars>>

EtNext ==
    \/ EtIngestTrust
    \/ EtIngestSeed
    \/ \E threads \in WorkerThreads : EtStart(threads)
    \/ EtRound
    \/ EtFinish
    \/ \E how \in ScoreFiles, posted \in {"run", "file", "none"}, threads \in WorkerThreads :
          EtVerify(how, posted, threads)

EtInit ==
    /\ et_pc = "idle"
    /\ et_job \in Jobs
    /\ et_runs = <<>>
    /\ et_cur = NoRun
    /\ et_verdict = NoVerdict
    /\ chain = <<>>
    /\ MkIdle
    /\ ChIdle
    /\ CpIdle
    /\ NmIdle
    /\ DmIdle
    /\ JbIdle
    /\ SvIdle
    /\ OltIdle
    /\ RnIdle

SpecEt == EtInit /\ [][EtNext]_vars

\* ---- claims about the compute run and its verification --------------------

\* C18: the scores that a returned positive_run produced from the job's
\* entries pass the convergence check of a verification runner built from
\* the same entries (compute_verification returns Ok(true)).
C18_HonestScoresPassConvergenceCheck ==
    (et_verdict.done /\ et_verdict.how = "honest") =>
        (et_verdict.ok /\ et_verdict.is_converged)

\* C19: two runs of the compute pipeline on the same trust and seed entries
\* give the same ordered score list, the same sub-job commitment and the
\* same meta commitment, however the parallel reductions were split.
C19_RunsAgree ==
    Len(et_runs) = 2 =>
        /\ et_runs[1].scores = et_runs[2].scores
        /\ et_runs[1].commitment = et_runs[2].commitment
        /\ et_runs[1].meta_commitment = et_runs[2].meta_commitment

\* the root of the fixed tree rebuilt from the registered scores, in
\* registered order, equals the registered commitment
RegisteredRootEqual ==
    et_verdict.commitment =
        root(NewTree([i \in 1 .. Len(et_verdict.scores) |-> hash_leaf(et_verdict.scores[i].value)]))

\* C20 as stated: verify_job returns true exactly when the rebuilt root
\* equals the registered commitment and the convergence check passes, and it
\* returns false when either is false.
C20_VerifyJobIsConjunction ==
    et_verdict.done =>
        /\ et_verdict.ok
        /\ et_verdict.value = (RegisteredRootEqual /\ et_verdict.is_converged)

\* C20 amended: verify_job returns Ok(true) exactly when the rebuilt root
\* equals the registered commitment and the convergence check passes, and
\* Ok(false) when either is false, provided every registered id has an index
\* in the runner; otherwise it returns the DomainIndexNotFound error,
\* whatever the roots are.
C20_VerifyJobIsConjunctionUnlessUnknownId ==
    et_verdict.done =>
        LET known == \A i \in 1 .. Len(et_verdict.scores) :
                         et_verdict.scores[i].id \in DOMAIN rn_indices
        IN  /\ et_verdict.ok = known
            /\ et_verdict.is_root_equal = RegisteredRootEqual
            /\ known => et_verdict.value = (RegisteredRootEqual /\ et_verdict.is_converged)
            /\ ~known => ~et_verdict.value

\* verify_job returned Ok(false) on converged scores registered with a
\* commitment that is not their root
C20_Witness ==
    /\ et_verdict.done
    /\ et_verdict.ok
    /\ et_verdict.is_converged
    /\ ~RegisteredRootEqual
    /\ ~et_verdict.value

\* some registered score entry names an id the runner has no index for
RegisteredUnknownId ==
    \E i \in 1 .. Len(et_verdict.scores) : et_verdict.scores[i].id \notin DOMAIN rn_indices

\* C30: when a registered score entry names an id that is not in the
\* runner's index dictionary, verify_job returns the DomainIndexNotFound
\* error: neither Ok(true) nor Ok(false).
C30_UnknownIdIsError ==
    (et_verdict.done /\ RegisteredUnknownId) => (~et_verdict.ok /\ ~et_verdict.value)

\* verify_job ran on scores with a row for an id the job never names, whose
\* rebuilt root equals the registered commitment, and returned the error
C30_Witness ==
    /\ et_verdict.done
    /\ et_verdict.how = "unknown"
    /\ RegisteredUnknownId
    /\ et_verdict.is_root_equal
    /\ ~et_verdict.ok

\* ------------------------------------------------------------------------
\* One invocation of a handler, step by step: handle_meta_compute_request
\* (app/src/computer.rs) and handle_meta_compute_result
\* (app/src/challenger.rs).  The download tasks of STAGE 1 and the upload
\* tasks of STAGE 3 are spawned and interleave at their await points; STAGE 2
\* is a loop of the handler itself.
\* ------------------------------------------------------------------------

\* the most sub-jobs of a meta-job handled here
MaxSubJobs == 3

\* CHALLENGE_WINDOW of the manager contract, in seconds of the model
ChallengeWindow == 1

\* a blob and its cache file: ./<dir>/<id>, object key <dir>/<id>
Blob(dir, id) == <<dir, id>>

\* which directories of the cache are filled when the handler starts (by
\* earlier handlings of the same blobs)
Caches == {{}, {"trust"}, {"trust", "seed", "scores"}}

\* results lists the challenger is given
JbResultIds ==
    {"honest", "fabFirst", "secondBad", "unknownId", "notHex", "longer", "shorter"}

\* The events handled: a MetaComputeRequest by the computer; by the
\* challenger a MetaComputeResult of a known, unchallenged compute id with its
\* results id, its meta commitment, and the seconds between the block of the
\* log and the latest block.
JbEvents ==
    {[service |-> "computer", jd |-> jd, rid |-> "none", commitment |-> Zero,
      elapsed |-> 0, cache |-> c] : jd \in {"jd2", "jdShared", "jdNotHex"}, c \in Caches}
    \cup
    UNION {{[service |-> "challenger", jd |-> "jd2", rid |-> rid, commitment |-> m,
             elapsed |-> e, cache |-> c] :
               m \in {MetaRoot(rid), WrongHash}, e \in {0, ChallengeWindow}, c \in Caches} :
           rid \in JbResultIds}

\* the sub-jobs the handler makes tasks for: the job description (computer),
\* the results list (challenger)
SubJobs(ev) ==
    IF ev.service = "computer" THEN Len(JobDescriptions[ev.jd]) ELSE Len(ResultsMeta[ev.rid])

\* the blobs of the download task of sub-job i (1-based): trust and seed,
\* and for the challenger the scores
TaskBlobs(ev, i) ==
    LET d == JobDescriptions[ev.jd][i]
    IN  IF ev.service = "computer"
        THEN <<Blob("trust", d.trust_id), Blob("seed", d.seed_id)>>
        ELSE <<Blob("trust", d.trust_id), Blob("seed", d.seed_id),
               Blob("scores", ResultsMeta[ev.rid][i].scores_id)>>

JbPaths ==
    {Blob("trust", t) : t \in {"t0", "t1", "zz"}} \cup {Blob("seed", sd) : sd \in {"s0", "s1"}}
    \cup {Blob("scores", sid) : sid \in DOMAIN ScoresBlobs}

\* a download task: the blob it is at, whether it has checked it, and per
\* blob done what the check found, whether it downloaded, and its result
NewTask(blobs) ==
    [blobs |-> blobs, k |-> 1, phase |-> "check", found |-> <<>>, downloaded |-> <<>>,
     result |-> <<>>]

TaskDone(task) == task.k > Len(task.blobs)

\* if tokio::fs::metadata(&path).await.is_ok() { (Ok(()), false) } else { download }
MutCheckBlobNeverFinds(task, disk) == [task EXCEPT !.phase = "download"]

CheckBlob(task, disk) ==
    IF disk[task.blobs[task.k]] # "absent"
    THEN [task EXCEPT !.k = @ + 1,
                      !.found = Append(@, TRUE),
                      !.downloaded = Append(@, FALSE),
                      !.result = Append(@, "ok")]
    ELSE [task EXCEPT !.phase = "download"]

\* The first sub-job (1-based) at which building the download tasks panics,
\* 0 when none does: a blob id of the computer's job description that is not
\* hex (hex::decode(..).unwrap()), a result of the challenger beyond the end
\* of the job description (job_description[i]).
PanicAt(ev) ==
    LET bad == {i \in 1 .. SubJobs(ev) :
                   \/ i > Len(JobDescriptions[ev.jd])
                   \/ ev.service = "computer" /\ ~JobDescriptions[ev.jd][i].hex}
    IN  IF bad = {} THEN 0 ELSE CHOOSE i \in bad : \A j \in bad : i <= j

\* the handler up to the spawned download tasks: the metadata downloads,
\* get_block, create_dir_all (io = "err": one of them fails), then one task
\* per sub-job, each spawned as it is built: the tasks spawned before a panic
\* are running.
JbBegin(io) ==
    /\ jb_pc = "start"
    /\ IF io = "err"
       THEN jb_pc' = "error" /\ UNCHANGED jb_tasks
       ELSE LET n == IF PanicAt(jb_ev) = 0 THEN SubJobs(jb_ev) ELSE PanicAt(jb_ev) - 1
            IN  /\ jb_pc' = IF PanicAt(jb_ev) = 0 THEN "stage1" ELSE "panicked"
                /\ jb_tasks' = [i \in 1 .. n |-> NewTask(TaskBlobs(jb_ev, i))]
    /\ UNCHANGED <<jb_ev, jb_disk, jb_gets, jb_stage2, jb_uploads, jb_out, mk_vars, chain,
                   ch_vars, cp_vars, sv_vars, olt_vars, rn_vars, et_vars,
                   nm_vars, dm_vars>>

\* a download task looks for the cache file of its next blob
JbTaskCheck(t) ==
    /\ jb_pc \in {"stage1", "panicked"}
    /\ t \in DOMAIN jb_tasks
    /\ ~TaskDone(jb_tasks[t])
    /\ jb_tasks[t].phase = "check"
    /\ jb_tasks' = [jb_tasks EXCEPT ![t] = CheckBlob(@, jb_disk)]
    /\ UNCHANGED <<jb_ev, jb_pc, jb_disk, jb_gets, jb_stage2, jb_uploads, jb_out, mk_vars,
                   chain, ch_vars, cp_vars, sv_vars, olt_vars, rn_vars, et_vars,
                   nm_vars, dm_vars>>

\* download_s3_object_to_file, File::create: the file exists and is empty
\* from here on (ok = FALSE: the file cannot be created, the download
\* returns the error before any get)
JbTaskCreate(t, ok) ==
    /\ jb_pc \in {"stage1", "panicked"}
    /\ t \in DOMAIN jb_tasks
    /\ ~TaskDone(jb_tasks[t])
    /\ jb_tasks[t].phase = "download"
    /\ IF ok
       THEN /\ jb_disk' = [jb_disk EXCEPT ![jb_tasks[t].blobs[jb_tasks[t].k]] = "empty"]
            /\ jb_tasks' = [jb_tasks EXCEPT ![t] = [@ EXCEPT !.phase = "get"]]
       ELSE /\ jb_tasks' = [jb_tasks EXCEPT ![t] =
                               [@ EXCEPT !.k = @ + 1,
                                         !.phase = "check",
                                         !.found = Append(@, FALSE),
                                         !.downloaded = Append(@, TRUE),
                                         !.result = Append(@, "err")]]
            /\ UNCHANGED jb_disk
    /\ UNCHANGED <<jb_ev, jb_pc, jb_gets, jb_stage2, jb_uploads, jb_out, mk_vars, chain,
                   ch_vars, cp_vars, sv_vars, olt_vars, rn_vars, et_vars,
                   nm_vars, dm_vars>>

\* download_s3_object_to_file, get_object and the body written to the file
\* (ok = FALSE: the get or a chunk fails, the file stays as far as written)
JbTaskGet(t, ok) ==
    /\ jb_pc \in {"stage1", "panicked"}
    /\ t \in DOMAIN jb_tasks
    /\ ~TaskDone(jb_tasks[t])
    /\ jb_tasks[t].phase = "get"
    /\ LET path == jb_tasks[t].blobs[jb_tasks[t].k]
       IN  /\ jb_disk' = [jb_disk EXCEPT ![path] = IF ok THEN "full" ELSE "partial"]
           /\ jb_gets' = [jb_gets EXCEPT ![path] = @ + 1]
    /\ jb_tasks' = [jb_tasks EXCEPT ![t] =
                       [@ EXCEPT !.k = @ + 1,
                                 !.phase = "check",
                                 !.found = Append(@, FALSE),
                                 !.downloaded = Append(@, TRUE),
                                 !.result = Append(@, IF ok THEN "ok" ELSE "err")]]
    /\ UNCHANGED <<jb_ev, jb_pc, jb_stage2, jb_uploads, jb_out, mk_vars, chain, ch_vars,
                   cp_vars, sv_vars, olt_vars, rn_vars, et_vars,
                   nm_vars, dm_vars>>

AllTasksDone == \A t \in DOMAIN jb_tasks : TaskDone(jb_tasks[t])

SomeTaskFailed ==
    \E t \in DOMAIN jb_tasks : \E j \in 1 .. Len(jb_tasks[t].result) :
        jb_tasks[t].result[j] = "err"

\* join_all(download_tasks).await and the loop over the results: the first
\* failed download returns its error
MutJoinFirstTaskOnly ==
    /\ jb_pc = "stage1"
    /\ jb_tasks # <<>> /\ TaskDone(jb_tasks[1])
    /\ jb_pc' = "stage2"
    /\ UNCHANGED <<jb_ev, jb_disk, jb_gets, jb_tasks, jb_stage2, jb_uploads, jb_out, mk_vars,
                   chain, ch_vars, cp_vars, sv_vars, olt_vars, rn_vars, et_vars,
                   nm_vars, dm_vars>>

JbJoin ==
    /\ jb_pc = "stage1"
    /\ AllTasksDone
    /\ jb_pc' = IF SomeTaskFailed THEN "error" ELSE "stage2"
    /\ UNCHANGED <<jb_ev, jb_disk, jb_gets, jb_tasks, jb_stage2, jb_uploads, jb_out, mk_vars,
                   chain, ch_vars, cp_vars, sv_vars, olt_vars, rn_vars, et_vars,
                   nm_vars, dm_vars>>

JbFrame ==
    UNCHANGED <<mk_vars, chain, ch_vars, cp_vars, sv_vars, olt_vars, rn_vars, et_vars,
                nm_vars, dm_vars>>

\* STAGE 2 of the challenger, sub-job i = jb_stage2.i: the three files are
\* opened and parsed (io = "err": one of them fails), the runner is built,
\* the claimed commitment is decoded, verify_job runs.
\*   if !result { global_result = false; sub_job_failed = i; break; }
MutVerifyWithoutBreak(io) ==
    /\ jb_pc = "stage2"
    /\ jb_ev.service = "challenger"
    /\ io = "ok"
    /\ LET i           == jb_stage2.i
           compute_res == ResultsMeta[jb_ev.rid][i + 1]
           result      == verify_job(compute_res.scores_id, compute_res.commitment.hash)
       IN  /\ compute_res.commitment.valid /\ result.ok
           /\ jb_stage2' = [i |-> i + 1, done |-> Append(jb_stage2.done, i),
                            global_result |-> jb_stage2.global_result /\ result.value,
                            sub_job_failed |-> IF result.value THEN jb_stage2.sub_job_failed
                                               ELSE i]
           /\ jb_pc' = IF i + 1 = SubJobs(jb_ev) THEN "decide" ELSE "stage2"
    /\ UNCHANGED <<jb_ev, jb_disk, jb_gets, jb_tasks, jb_uploads, jb_out>>
    /\ JbFrame

JbVerify(io) ==
    /\ jb_pc = "stage2"
    /\ jb_ev.service = "challenger"
    /\ LET i           == jb_stage2.i
           compute_res == ResultsMeta[jb_ev.rid][i + 1]
           result      == verify_job(compute_res.scores_id, compute_res.commitment.hash)
       IN  IF io = "err" \/ ~compute_res.commitment.valid \/ ~result.ok
           THEN jb_pc' = "error" /\ UNCHANGED jb_stage2
           ELSE IF ~result.value
                THEN /\ jb_stage2' = [i |-> i, done |-> Append(jb_stage2.done, i),
                                      global_result |-> FALSE, sub_job_failed |-> i]
                     /\ jb_pc' = "decide"
                ELSE /\ jb_stage2' = [jb_stage2 EXCEPT !.i = i + 1, !.done = Append(@, i)]
                     /\ jb_pc' = IF i + 1 = SubJobs(jb_ev) THEN "decide" ELSE "stage2"
    /\ UNCHANGED <<jb_ev, jb_disk, jb_gets, jb_tasks, jb_uploads, jb_out>>
    /\ JbFrame

\* after the loop: the meta tree is rebuilt from the claimed commitments
\* (an undecodable one returns the error), compared with the commitment of
\* the event, the challenge window is computed, and the challenge is sent
\* if !global_result.
MutDecideIgnoresMetaRoot ==
    /\ jb_pc = "decide"
    /\ LET results == ResultsMeta[jb_ev.rid]
       IN  /\ \A i \in 1 .. Len(results) : results[i].commitment.valid
           /\ jb_out' = [rebuilt |-> TRUE,
                         commitment_result |->
                             root(NewTree(ClaimedCommitments(results))) = jb_ev.commitment,
                         challenge_window_open |-> jb_ev.elapsed < ChallengeWindow,
                         meta_uploaded |-> FALSE,
                         submitted |-> SubmitsChallenge(jb_stage2.global_result)]
           /\ jb_pc' = "done"
    /\ UNCHANGED <<jb_ev, jb_disk, jb_gets, jb_tasks, jb_stage2, jb_uploads>>
    /\ JbFrame

MutDecideOnlyInWindow ==
    /\ jb_pc = "decide"
    /\ LET results           == ResultsMeta[jb_ev.rid]
           commitment_result ==
               root(NewTree(ClaimedCommitments(results))) = jb_ev.commitment
           global_result     == jb_stage2.global_result /\ commitment_result
           window_open       == jb_ev.elapsed < ChallengeWindow
       IN  /\ \A i \in 1 .. Len(results) : results[i].commitment.valid
           /\ jb_stage2' = [jb_stage2 EXCEPT !.global_result = global_result]
           /\ jb_out' = [rebuilt |-> TRUE, commitment_result |-> commitment_result,
                         challenge_window_open |-> window_open,
                         meta_uploaded |-> FALSE,
                         submitted |-> SubmitsChallenge(global_result) /\ window_open]
           /\ jb_pc' = "done"
    /\ UNCHANGED <<jb_ev, jb_disk, jb_gets, jb_tasks, jb_uploads>>
    /\ JbFrame

JbDecide ==
    /\ jb_pc = "decide"
    /\ LET results           == ResultsMeta[jb_ev.rid]
           commitment_result ==
               root(NewTree(ClaimedCommitments(results))) = jb_ev.commitment
           global_result     == jb_stage2.global_result /\ commitment_result
       IN  IF \E i \in 1 .. Len(results) : ~results[i].commitment.valid
           THEN jb_pc' = "error" /\ UNCHANGED <<jb_stage2, jb_out>>
           ELSE /\ jb_stage2' = [jb_stage2 EXCEPT !.global_result = global_result]
                /\ jb_out' = [rebuilt |-> TRUE, commitment_result |-> commitment_result,
                              challenge_window_open |-> jb_ev.elapsed < ChallengeWindow,
                              meta_uploaded |-> FALSE,
                              submitted |-> SubmitsChallenge(global_result)]
                /\ jb_pc' = "done"
    /\ UNCHANGED <<jb_ev, jb_disk, jb_gets, jb_tasks, jb_uploads>>
    /\ JbFrame

\* STAGE 2 of the computer, sub-job i: the files are opened and parsed, the
\* runner computes, the scores csv is written (io = "err": a step fails);
\* after the last sub-job one upload task per sub-job is spawned.
JbCompute(io) ==
    /\ jb_pc = "stage2"
    /\ jb_ev.service = "computer"
    /\ LET i == jb_stage2.i
       IN  IF io = "err"
           THEN jb_pc' = "error" /\ UNCHANGED <<jb_stage2, jb_uploads>>
           ELSE /\ jb_stage2' = [jb_stage2 EXCEPT !.i = i + 1, !.done = Append(@, i)]
                /\ IF i + 1 = SubJobs(jb_ev)
                   THEN /\ jb_pc' = "stage3"
                        /\ jb_uploads' = [t \in 1 .. SubJobs(jb_ev) |-> "running"]
                   ELSE jb_pc' = "stage2" /\ UNCHANGED jb_uploads
    /\ UNCHANGED <<jb_ev, jb_disk, jb_gets, jb_tasks, jb_out>>
    /\ JbFrame

\* an upload task of STAGE 3: upload_file_to_s3_streaming of one scores file
JbUpload(t, ok) ==
    /\ jb_pc = "stage3"
    /\ t \in DOMAIN jb_uploads
    /\ jb_uploads[t] = "running"
    /\ jb_uploads' = [jb_uploads EXCEPT ![t] = IF ok THEN "ok" ELSE "err"]
    /\ UNCHANGED <<jb_ev, jb_pc, jb_disk, jb_gets, jb_tasks, jb_stage2, jb_out>>
    /\ JbFrame

\* join_all(upload_tasks).await; for result in upload_results { result??; }
MutJoinUploadsIgnoresErrors ==
    /\ jb_pc = "stage3"
    /\ \A t \in DOMAIN jb_uploads : jb_uploads[t] # "running"
    /\ jb_pc' = "uploaded"
    /\ UNCHANGED <<jb_ev, jb_disk, jb_gets, jb_tasks, jb_stage2, jb_uploads, jb_out>>
    /\ JbFrame

JbJoinUploads ==
    /\ jb_pc = "stage3"
    /\ \A t \in DOMAIN jb_uploads : jb_uploads[t] # "running"
    /\ jb_pc' = IF \E t \in DOMAIN jb_uploads : jb_uploads[t] = "err"
                THEN "error" ELSE "uploaded"
    /\ UNCHANGED <<jb_ev, jb_disk, jb_gets, jb_tasks, jb_stage2, jb_uploads, jb_out>>
    /\ JbFrame

\* the commitment tree is built, upload_meta stores the results list and
\* the meta id is decoded (ok = FALSE: upload_meta fails)
JbUploadMeta(ok) ==
    /\ jb_pc = "uploaded"
    /\ IF ok
       THEN jb_out' = [jb_out EXCEPT !.meta_uploaded = TRUE] /\ jb_pc' = "meta"
       ELSE jb_pc' = "error" /\ UNCHANGED jb_out
    /\ UNCHANGED <<jb_ev, jb_disk, jb_gets, jb_tasks, jb_stage2, jb_uploads>>
    /\ JbFrame

\* submitMetaComputeResult(..).send().await? (ok = FALSE: the send fails)
JbSubmit(ok) ==
    /\ jb_pc = "meta"
    /\ jb_out' = [jb_out EXCEPT !.submitted = TRUE]
    /\ jb_pc' = IF ok THEN "done" ELSE "error"
    /\ UNCHANGED <<jb_ev, jb_disk, jb_gets, jb_tasks, jb_stage2, jb_uploads>>
    /\ JbFrame

JbInit ==
    /\ MkIdle /\ ChIdle /\ CpIdle /\ chain = <<>>
    /\ NmIdle /\ DmIdle
    /\ SvIdle /\ OltIdle /\ RnIdle /\ EtIdle
    /\ jb_ev \in JbEvents
    /\ jb_pc = "start"
    /\ jb_disk = [p \in JbPaths |-> IF p[1] \in jb_ev.cache THEN "full" ELSE "absent"]
    /\ jb_gets = [p \in JbPaths |-> 0]
    /\ jb_tasks = <<>>
    /\ jb_stage2 = NoStage2
    /\ jb_uploads = <<>>
    /\ jb_out = NoOutcome

JbNext ==
    \/ \E io \in {"ok", "err"} : JbBegin(io)
    \/ \E t \in 1 .. MaxSubJobs : JbTaskCheck(t)
    \/ \E t \in 1 .. MaxSubJobs, ok \in BOOLEAN : JbTaskCreate(t, ok)
    \/ \E t \in 1 .. MaxSubJobs, ok \in BOOLEAN : JbTaskGet(t, ok)
    \/ JbJoin
    \/ \E io \in {"ok", "err"} : JbVerify(io)
    \/ JbDecide
    \/ \E io \in {"ok", "err"} : JbCompute(io)
    \/ \E t \in 1 .. MaxSubJobs, ok \in BOOLEAN : JbUpload(t, ok)
    \/ JbJoinUploads
    \/ \E ok \in BOOLEAN : JbUploadMeta(ok)
    \/ \E ok \in BOOLEAN : JbSubmit(ok)

SpecJob == JbInit /\ [][JbNext]_vars

\* ------------------------------------------------------------------------
\* Properties of one handling
\* ------------------------------------------------------------------------
InitiallyCached(p) == p[1] \in jb_ev.cache

Stage2Started ==
    \/ jb_stage2.done # <<>>
    \/ jb_pc \in {"stage2", "decide", "stage3", "uploaded", "meta", "done"}

InOrder(done) == \A j \in 1 .. Len(done) : done[j] = j - 1

\* the sub-jobs (0-based) of a results list whose verify_job is not true
NotVerified(results) ==
    {i \in 0 .. Len(results) - 1 :
        ~verify_job(results[i + 1].scores_id, results[i + 1].commitment.hash).value}

Least(S) == CHOOSE i \in S : \A j \in S : i <= j

\* C21: the computer calls submitMetaComputeResult only after every sub-job
\* was computed, then every scores upload succeeded, then the results
\* metadata was uploaded; a handling in which one of these steps failed has
\* made no submission.
C21_SubmitAfterUploads ==
    jb_ev.service = "computer" =>
        /\ jb_uploads # <<>> => Len(jb_stage2.done) = SubJobs(jb_ev)
        /\ jb_out.meta_uploaded =>
               /\ jb_uploads # <<>>
               /\ \A t \in DOMAIN jb_uploads : jb_uploads[t] = "ok"
        /\ jb_out.submitted => jb_out.meta_uploaded
        /\ jb_out.submitted => (AllTasksDone /\ ~SomeTaskFailed)

C21_Witness ==
    /\ jb_ev.service = "computer"
    /\ jb_pc = "done"
    /\ jb_out.submitted
    /\ jb_stage2.done = <<0, 1>>
    /\ jb_uploads = <<"ok", "ok">>

\* C25: the challenger verifies the sub-jobs in ascending order, and at the
\* first one whose verify_job is false it records that index in
\* sub_job_failed, sets global_result false and verifies no later sub-job.
C25_FirstFailureEndsStage2 ==
    jb_ev.service = "challenger" =>
        /\ InOrder(jb_stage2.done)
        /\ jb_pc \in {"decide", "done"} =>
               LET F == NotVerified(ResultsMeta[jb_ev.rid])
               IN  IF F = {}
                   THEN /\ Len(jb_stage2.done) = SubJobs(jb_ev)
                        /\ jb_pc = "decide" => jb_stage2.global_result
                   ELSE /\ jb_stage2.sub_job_failed = Least(F)
                        /\ ~jb_stage2.global_result
                        /\ Len(jb_stage2.done) = Least(F) + 1

C25_Witness ==
    /\ jb_ev.service = "challenger"
    /\ jb_ev.rid = "fabFirst"
    /\ jb_pc = "done"
    /\ jb_stage2.done = <<0>>
    /\ jb_stage2.sub_job_failed = 0
    /\ ~jb_stage2.global_result

\* C26: when the meta root rebuilt from the claimed commitments differs from
\* the meta commitment of the event, global_result is false and the
\* challenge is submitted, also when every sub-job verified.
C26_MetaRootMismatchChallenged ==
    (jb_out.rebuilt /\ MetaRoot(jb_ev.rid) # jb_ev.commitment) =>
        (~jb_stage2.global_result /\ jb_out.submitted)

C26_Witness ==
    /\ jb_out.rebuilt
    /\ jb_ev.rid = "honest"
    /\ jb_ev.commitment = WrongHash
    /\ jb_stage2.done = <<0, 1>>
    /\ NotVerified(ResultsMeta[jb_ev.rid]) = {}
    /\ ~jb_out.commitment_result
    /\ jb_out.submitted

\* C27: whether the challenge is submitted depends on global_result alone:
\* it is submitted exactly when global_result is false, whether or not the
\* challenge window is still open.
C27_SubmitIgnoresWindow ==
    jb_out.rebuilt => (jb_out.submitted <=> ~jb_stage2.global_result)

C27_Witness ==
    /\ jb_out.rebuilt
    /\ jb_ev.elapsed >= ChallengeWindow
    /\ ~jb_out.challenge_window_open
    /\ ~jb_stage2.global_result
    /\ jb_out.submitted

\* C28: in STAGE 1 of both services a task that finds the cache file of a
\* blob does not download it (it issues no get and leaves the file as it
\* was), and a task that finds no file downloads the blob; so no get is ever
\* issued for a blob that was cached when the handling began.
C28_CachedBlobsNotDownloaded ==
    [][/\ \A p \in JbPaths : InitiallyCached(p) => (jb_gets'[p] = 0 /\ jb_disk'[p] = "full")
       /\ \A t \in DOMAIN jb_tasks :
              LET task == jb_tasks[t]
                  p    == task.blobs[task.k]
              IN  /\ (task.phase = "check" /\ ~TaskDone(task) /\ jb_tasks'[t] # task) =>
                         IF jb_disk[p] # "absent"
                         THEN /\ jb_tasks'[t].k = task.k + 1
                              /\ jb_tasks'[t].downloaded = Append(task.downloaded, FALSE)
                              /\ jb_gets' = jb_gets /\ jb_disk' = jb_disk
                         ELSE jb_tasks'[t].phase = "download" /\ jb_tasks'[t].k = task.k
                  /\ (task.phase = "download" /\ jb_tasks'[t] # task) =>
                         \/ jb_tasks'[t].phase = "get" /\ jb_disk'[p] = "empty"
                         \/ jb_tasks'[t].result = Append(task.result, "err")
                  /\ (task.phase = "get" /\ jb_tasks'[t] # task) =>
                         jb_gets'[p] = jb_gets[p] + 1]_vars

C28_Witness ==
    /\ jb_ev.service = "challenger"
    /\ jb_ev.cache = {"trust"}
    /\ jb_pc = "stage2"
    /\ jb_gets[Blob("trust", "t0")] = 0
    /\ jb_gets[Blob("seed", "s0")] = 1
    /\ jb_gets[Blob("scores", "sA")] = 1
    /\ jb_tasks[1].downloaded = <<FALSE, TRUE, TRUE>>

C40_StartupWindowNeverUnderflows ==
    ch_window.polls >= 1 /\ ch_window.prev_to = -1 =>
        ch_window.from = (IF ch_window.to >= BlockHistory THEN ch_window.to - BlockHistory
                          ELSE 0)

\* C39: while the log queries succeed the windows of the computer's polls
\* leave no block out: a poll starts no later than the block after the end
\* of the poll before it and ends no earlier, and it fetches every request
\* log and every result log of its window (the requests are queued, the
\* decodable results are in finished_jobs).
C39_PollsLeaveNoBlockUncovered ==
    [][cp_window' # cp_window =>
          /\ cp_window.polls >= 1 =>
                 /\ cp_window'.from <= cp_window.to + 1
                 /\ cp_window'.to >= cp_window.to
          /\ cp_pc' # "aborted" =>
                 /\ cp_queue' = LogsIn(chain, cp_window'.from, cp_window'.to, "request")
                 /\ SeqIds(Decodable(LogsIn(chain, cp_window'.from, cp_window'.to, "result")))
                        \subseteq cp_finished']_vars

C39_Witness ==
    /\ cp_pc = "tick"
    /\ cp_window.polls = 2
    /\ cp_window.prev_to < cp_window.to
    /\ \E b \in (cp_window.prev_to + 1) .. cp_window.to :
           chain[b].kind = "request" /\ \E i \in 1 .. Len(cp_queue) : cp_queue[i] = chain[b]

\* the contract emits one MetaComputeRequest per compute id
RequestedOnce ==
    \A b, c \in 1 .. Len(chain) :
        (chain[b].kind = "request" /\ chain[c].kind = "request" /\ chain[b].id = chain[c].id)
            => b = c

\* C33: over any sequence of polls the computer calls
\* submitMetaComputeResult at most once for a compute id (each compute id
\* being requested by one event), also when the block of the request is
\* read again by the next poll.
C33_AtMostOneSubmissionPerId ==
    RequestedOnce => \A id \in DOMAIN cp_calls : cp_calls[id] <= 1

\* ------------------------------------------------------------------------
\* Further properties of one handling
\* ------------------------------------------------------------------------

\* C34: when a handling has ended, every cache file on disk holds the whole
\* of its blob: a download that failed has left no file behind, so that a
\* later handling downloads the blob again.
C34_CacheFilesAreComplete ==
    jb_pc \in {"error", "done"} => \A p \in JbPaths : jb_disk[p] \in {"absent", "full"}

\* C36: the challenger ends the handling of a result without a challenge
\* only if the results list has as many entries as the job description of
\* the request.
C36_ShortResultNotAccepted ==
    (jb_ev.service = "challenger" /\ jb_pc = "done" /\ ~jb_out.submitted) =>
        Len(ResultsMeta[jb_ev.rid]) = Len(JobDescriptions[jb_ev.jd])

\* C37: the sub-job named by a submitted challenge is one whose verify_job
\* returned false in this handling.
C37_ChallengeNamesFailedSubJob ==
    (jb_ev.service = "challenger" /\ jb_out.submitted) =>
        /\ \E j \in 1 .. Len(jb_stage2.done) : jb_stage2.done[j] = jb_stage2.sub_job_failed
        /\ jb_stage2.sub_job_failed \in NotVerified(ResultsMeta[jb_ev.rid])

\* ------------------------------------------------------------------------
\* normalise_scores of the two algorithms (common/src/algos/et.rs,
\* common/src/algos/sr.rs) applied to one score or seed vector
\* ------------------------------------------------------------------------
MaxNormKeys == 3

NormValues == {0, Unit, 0 - Unit, BigValue}

\* the vectors: a value for some of the indices 0 .. MaxNormKeys - 1
NormInputs ==
    UNION {[ks -> NormValues] : ks \in SUBSET (0 .. MaxNormKeys - 1)}

\* sr.rs: if sum == 0.0 { return scores.clone(); }, then as in et.rs
sr_normalise_scores(scores, threads) ==
    LET sum == ParSum(ValuesOf(scores), threads)
    IN  IF f32_eq(sum, 0) THEN scores
        ELSE Evaluated([i \in DOMAIN scores |-> f32_div(scores[i], sum)])

Normalised(algo, threads, scores) == [algo |-> algo, threads |-> threads, scores |-> scores]

NmFrame ==
    UNCHANGED <<nm_in, mk_vars, chain, ch_vars, cp_vars, sv_vars, olt_vars, rn_vars, et_vars,
                jb_vars, dm_vars>>

NmEt(threads) ==
    /\ nm_out = NoNorm
    /\ nm_out' = Normalised("et", threads, normalise_scores(nm_in, threads))
    /\ NmFrame

NmSr(threads) ==
    /\ nm_out = NoNorm
    /\ nm_out' = Normalised("sr", threads, sr_normalise_scores(nm_in, threads))
    /\ NmFrame

NmInit ==
    /\ MkIdle /\ ChIdle /\ CpIdle /\ chain = <<>>
    /\ SvIdle /\ OltIdle /\ RnIdle /\ EtIdle /\ JbIdle /\ DmIdle
    /\ nm_in \in NormInputs
    /\ nm_out = NoNorm

NmNext ==
    \/ \E threads \in WorkerThreads : NmEt(threads)
    \/ \E threads \in WorkerThreads : NmSr(threads)

SpecNorm == NmInit /\ [][NmNext]_vars

\* C32: in both algorithms normalise_scores returns a vector whose sum is
\* zero unchanged, and otherwise every value divided by the sum.
C32_ZeroSumReturnedUnchanged ==
    nm_out.algo # "none" =>
        LET sum == ParSum(ValuesOf(nm_in), nm_out.threads)
        IN  IF f32_eq(sum, 0) THEN nm_out.scores = nm_in
            ELSE /\ DOMAIN nm_out.scores = DOMAIN nm_in
                 /\ \A i \in DOMAIN nm_in : nm_out.scores[i] = f32_div(nm_in[i], sum)

\* ------------------------------------------------------------------------
\* The maps of a runner by domain (common/src/runners/mod.rs BaseRunner,
\* compute_runner.rs, verification_runner.rs): which key each map is filled
\* under by new() and looked up under by the operations.  The values of the
\* maps are those of the runner state above.
\* ------------------------------------------------------------------------

\* OwnedNamespace(owner, id)
Namespaces == {"ns0", "ns1"}

Domain(trust, seed) == [trust_namespace |-> trust, seed_namespace |-> seed]

Domains == {Domain(t, sd) : t \in Namespaces, sd \in Namespaces}

\* Domain::to_hash: the hash of the two namespaces and the algorithm id
\* (the algorithm is the same for all domains here; no hash collisions)
to_hash(domain) == <<domain.trust_namespace, domain.seed_namespace>>

\* BaseRunner::new: the keys of the maps.  domains is what was passed.
BaseRunnerNew(domains) ==
    [built |-> TRUE, domains |-> domains,
     hashes      |-> {to_hash(d) : d \in domains},
     local_trust |-> {d.trust_namespace : d \in domains},
     seed_trust  |-> {d.trust_namespace : d \in domains}]

\* the lookups of update_seed and update_seed_map, in order
UpdateSeedLookups(runner, domain) ==
    IF to_hash(domain) \notin runner.hashes THEN "IndicesNotFound"
    ELSE IF domain.seed_namespace \notin runner.seed_trust THEN "SeedTrustNotFound"
    ELSE "ok"

\* the lookups of ComputeRunner::compute, in order
ComputeLookups(runner, domain) ==
    IF domain.trust_namespace \notin runner.local_trust THEN "LocalTrustNotFound"
    ELSE IF domain.seed_namespace \notin runner.seed_trust THEN "SeedTrustNotFound"
    ELSE IF to_hash(domain) \notin runner.hashes THEN "CountNotFound"
    ELSE "ok"

\* the lookups of VerificationRunner::compute_verification, in order (the
\* scores of the domain being registered)
VerifyLookups(runner, domain) ==
    IF to_hash(domain) \notin runner.hashes THEN "IndicesNotFound"
    ELSE IF domain.trust_namespace \notin runner.local_trust THEN "LocalTrustNotFound"
    ELSE IF domain.seed_namespace \notin runner.seed_trust THEN "SeedTrustNotFound"
    ELSE "ok"

Call(op, domain, result) == [op |-> op, domain |-> domain, result |-> result]

DmFrame ==
    UNCHANGED <<mk_vars, chain, ch_vars, cp_vars, sv_vars, olt_vars, rn_vars, et_vars,
                jb_vars, nm_vars>>

DmNew(domains) ==
    /\ ~dm_runner.built
    /\ dm_runner' = BaseRunnerNew(domains)
    /\ UNCHANGED dm_last
    /\ DmFrame

DmUpdateSeed(domain) ==
    /\ dm_runner.built
    /\ dm_last' = Call("update_seed", domain, UpdateSeedLookups(dm_runner, domain))
    /\ UNCHANGED dm_runner
    /\ DmFrame

DmUpdateSeedMap(domain) ==
    /\ dm_runner.built
    /\ dm_last' = Call("update_seed_map", domain, UpdateSeedLookups(dm_runner, domain))
    /\ UNCHANGED dm_runner
    /\ DmFrame

DmCompute(domain) ==
    /\ dm_runner.built
    /\ dm_last' = Call("compute", domain, ComputeLookups(dm_runner, domain))
    /\ UNCHANGED dm_runner
    /\ DmFrame

DmVerify(domain) ==
    /\ dm_runner.built
    /\ dm_last' = Call("verify", domain, VerifyLookups(dm_runner, domain))
    /\ UNCHANGED dm_runner
    /\ DmFrame

DmInit ==
    /\ MkIdle /\ ChIdle /\ CpIdle /\ chain = <<>>
    /\ SvIdle /\ OltIdle /\ RnIdle /\ EtIdle /\ JbIdle /\ NmIdle
    /\ DmIdle

DmNext ==
    \/ \E domains \in SUBSET Domains : DmNew(domains)
    \/ \E domain \in Domains : DmUpdateSeed(domain)
    \/ \E domain \in Domains : DmUpdateSeedMap(domain)
    \/ \E domain \in Domains : DmCompute(domain)
    \/ \E domain \in Domains : DmVerify(domain)

SpecDomain == DmInit /\ [][DmNext]_vars

\* C38: for every domain that was passed to BaseRunner::new, update_seed,
\* update_seed_map, compute and the verification find the seed vector: none
\* of them fails with SeedTrustNotFound.
C38_SeedVectorFoundForEveryDomain ==
    (dm_last.op # "none" /\ dm_last.domain \in dm_runner.domains) =>
        dm_last.result # "SeedTrustNotFound"

\* ------------------------------------------------------------------------
\* Further properties of the compute / verify pipeline
\* ------------------------------------------------------------------------

\* the dense indices that receive a score in one propagation step over the
\* runner's matrix and seed: the targets of the pre-processed rows
Propagated ==
    LET n == Prepare(rn_local_trust, rn_seed_trust, rn_count, 1)
    IN  UNION {DOMAIN n.lt[from].outbound_trust_scores : from \in DOMAIN n.lt}

\* C35: verify_job returns true only if the registered score list has an
\* entry for every dense index that receives a score in one propagation
\* step; an empty list is not accepted while the runner holds entries.
C35_VerifiedScoresCoverPropagation ==
    (et_verdict.done /\ et_verdict.value) =>
        Propagated \subseteq
            {rn_indices[et_verdict.scores[i].id] : i \in 1 .. Len(et_verdict.scores)}

\* the node reached from `node`, the top of a full tree over `width` leaves,
\* on the way down to the leaf k (0-based)
RECURSIVE Descend(_, _, _)
Descend(node, k, width) ==
    IF width = 1 THEN node
    ELSE IF k < width \div 2 THEN Descend(node[1], k, width \div 2)
         ELSE Descend(node[2], k - width \div 2, width \div 2)

\* the leaf k (0-based) of the fixed tree over n leaves whose root is rt; the
\* root hashes the top of the full tree with the default of its level
LeafUnder(rt, k, n) == Descend(rt[1], k, next_power_of_two(n))

\* C31: the score list of a compute run has strictly ascending dense
\* indices, each once; get_compute_scores emits the entries in that order,
\* each index under its original id; leaf k of the compute tree is the hash
\* of the k-th value of that order.
C31_ScoresAscendingAndLeavesInOrder ==
    \A r \in 1 .. Len(et_runs) :
        LET scores == et_runs[r].scores
        IN  /\ \A i \in 1 .. Len(scores) : scores[i].id \in DOMAIN rn_indices
            /\ \A i, j \in 1 .. Len(scores) :
                   i < j => rn_indices[scores[i].id] < rn_indices[scores[j].id]
            /\ \A k \in 1 .. Len(scores) :
                   LeafUnder(et_runs[r].commitment, k - 1, Len(scores)) =
                       hash_leaf(scores[k].value)

\* a finished run over at least three ids whose indices are not in the
\* order of the ids, with scores that are not all equal
C31_Witness ==
    /\ et_runs # <<>>
    /\ Len(et_runs[1].scores) >= 3
    /\ \E i, j \in 1 .. Len(et_runs[1].scores) :
           /\ i < j
           /\ et_runs[1].scores[i].id = "c"
           /\ et_runs[1].scores[j].id = "a"
           /\ et_runs[1].scores[i].value # et_runs[1].scores[j].value

====
